---- MODULE Spec2Model ----
(***************************************************************************)
(* PnaclCoordinator: the cache-aware, asynchronous bitcode-to-native       *)
(* translation pipeline (pnacl_coordinator.cc).                            *)
(*                                                                         *)
(* The coordinator is event driven.  Every handler of the class is a       *)
(* function from the state before the callback to the state after it,      *)
(* written over one record so that a handler that calls another handler    *)
(* (CachedFileDidOpen -> NexeReadDidOpen, BitcodeStreamDidOpen ->          *)
(* BitcodeStreamDidFinish -> TranslateFinished, ...) is the composition of *)
(* the two functions, in the order of the code.  The actions at the end    *)
(* deliver one pending completion callback each, with the result the       *)
(* environment chose for it.                                               *)
(***************************************************************************)
EXTENDS Integers, Sequences, FiniteSets, TLC

VARIABLES
  use_new_cache_,           \* getenv("PNACL_USE_NEW_CACHE"), fixed per request
  off_the_record_,          \* plugin->nacl_interface()->IsOffTheRecord()
  response_validators,      \* parser.GetCacheValidators() of the pexe response
  response_no_store,        \* parser.CacheControlNoStore()
  download_total,           \* total size the downloader reports, -1 if unknown
  started,                  \* BitcodeToNative has run past the constructor
  destroyed,                \* ~PnaclCoordinator has run
  callbacks,                \* live callbacks of callback_factory_
  translate_finish_error_,
  error_already_reported_,
  error_code,               \* error_info_.error_code()
  cache_validators,         \* pnacl_options_ cache key ("" = none)
  is_cache_hit_,
  file_system_,             \* "closed" | "opening" | "open"
  cached_nexe_file_,        \* "null" | "key" | "scratch": the name it refers to
  cached_read_open,         \* cached_nexe_file_ holds an open read wrapper
  obj_file_,                \* "null" | "created" | "open"
  temp_nexe_file_,          \* "null" | "created" | "open"
  translated_fd_,           \* the handle given to the caller
  streaming_downloader_,    \* "null" | "opening" | "open" | "streaming" | "finished"
  bytes_streamed,           \* bytes the downloader has delivered so far
  translate_thread_,        \* "null" | "created" | "running" | "reported"
  aborted,                  \* AbortSubprocesses was called
  bytes_put,                \* bytes handed to the worker by PutBytes
  pexe_size_,
  pexe_bytes_compiled_,
  expected_pexe_size_,
  nexe,                     \* content of the worker's nexe temp file
  read_pos,                 \* position of temp_nexe_file_->read_wrapper()
  cache_dir,                \* files of the /.pnacl directory: <<name, content>>
  notify_log,               \* results translate_notify_callback_ was run with
  progress_events,          \* events given to EnqueueProgressEvent
  ops,                      \* how often each external operation was issued
  marks,                    \* facts of the run the properties refer to
  other,                    \* a second coordinator of the same key: how far it is
  other_result,             \* the bytes of the handle it gave its caller
  request,                  \* 1, or 2 for a later request on the same cache
  first_nexe,               \* what the worker of request 1 wrote
  uma_available,            \* the browser offers PPB_UMA_Private
  uma_interface,            \* the file's uma_interface is non-NULL
  histograms,               \* names of the samples handed to UMA
  error_pp,                 \* the pp_error in error_info_'s message, if any
  router,                   \* the SystemInfoEventRouter (system_info_api.cc)
  store                     \* the DomDistillerStore (dom_distiller_store.cc)

coordinator_vars ==
        << use_new_cache_, off_the_record_, response_validators,
           response_no_store, download_total, started, destroyed,
           callbacks,
           translate_finish_error_, error_already_reported_, error_code,
           cache_validators, is_cache_hit_, file_system_, cached_nexe_file_,
           cached_read_open, obj_file_, temp_nexe_file_, translated_fd_,
           streaming_downloader_, bytes_streamed, translate_thread_, aborted,
           bytes_put, pexe_size_, pexe_bytes_compiled_, expected_pexe_size_,
           nexe, read_pos, cache_dir, notify_log, progress_events, ops,
           marks, other, other_result, request, first_nexe,
           uma_available, uma_interface, histograms, error_pp >>

vars == << coordinator_vars, router, store >>

(***************************************************************************)
(* Bounds of the model.                                                    *)
(***************************************************************************)
\* Size of the reused copy buffer; the program's is 512 << 10 bytes, the
\* model copies files of a few bytes through a buffer of a few bytes.
kCopyBufSize == 2
\* Longest native executable the worker writes.
MaxNexeLen == 3
\* Size of the bitcode program, in bytes.
PexeSize == 2

(***************************************************************************)
(* pp_errors.h                                                             *)
(***************************************************************************)
PP_OK == 0
PP_OK_COMPLETIONPENDING == -1
PP_ERROR_FAILED == -2
PP_ERROR_ABORTED == -3
PP_ERROR_NOACCESS == -7
PP_ERROR_NOSPACE == -9
PP_ERROR_NOQUOTA == -10
PP_ERROR_INPROGRESS == -11
PP_ERROR_FILENOTFOUND == -20
PP_ERROR_FILEEXISTS == -21
PP_ERROR_NOTAFILE == -24

\* The validators and the URL of the request, as character sequences.
Validators == << "abc123" >>
Url == << "U" >>
NoString == << >>
\* The one cache key of the model: validators + url.
TheKey == Validators \o Url
\* The name of a scratch LocalTempFile (a random name in the directory).
ScratchName == << "scratch" >>

\* What the worker writes: n distinct bytes, so that a byte copied to the
\* wrong offset, or not at all, shows.
NexeOfLen(n) == [i \in 1..n |-> i]
\* A byte of a buffer that was overwritten after the code released it.
Garbage == 0

OpNames == { "ReadResourceInfo", "StartLoad", "FileSystemOpen", "MakeDirectory",
             "OpenStream", "FinishStreaming", "PutBytes", "GetNexeFd",
             "ProbeOpenRead", "ObjFileOpen", "NexeFileOpen", "NexeReadOpen",
             "RunTranslate", "AbortSubprocesses", "ReportTranslationFinished",
             "ScratchOpenWrite", "Read", "Write", "Rename", "Delete",
             "FinishRename", "CacheOpenRead", "ReportLoadError",
             "GetDownloadProgress" }

MarkNames == { "resource_load_failed", "resources_loaded", "headers_parsed",
               "cache_hit", "translate_ok", "copy_ok", "short_write",
               "zero_write", "buffer_clobbered", "rename_ok",
               "rename_collided", "rename_noaccess", "rename_failed",
               "worker_failed" }

(***************************************************************************)
(* The state as one record, and the record written back to the variables.  *)
(***************************************************************************)
State ==
  [ use_new_cache_ |-> use_new_cache_, off_the_record_ |-> off_the_record_,
    response_validators |-> response_validators,
    response_no_store |-> response_no_store,
    download_total |-> download_total, started |-> started,
    destroyed |-> destroyed,
    callbacks |-> callbacks,
    translate_finish_error_ |-> translate_finish_error_,
    error_already_reported_ |-> error_already_reported_,
    error_code |-> error_code, cache_validators |-> cache_validators,
    is_cache_hit_ |-> is_cache_hit_, file_system_ |-> file_system_,
    cached_nexe_file_ |-> cached_nexe_file_,
    cached_read_open |-> cached_read_open, obj_file_ |-> obj_file_,
    temp_nexe_file_ |-> temp_nexe_file_, translated_fd_ |-> translated_fd_,
    streaming_downloader_ |-> streaming_downloader_,
    bytes_streamed |-> bytes_streamed, translate_thread_ |-> translate_thread_,
    aborted |-> aborted, bytes_put |-> bytes_put, pexe_size_ |-> pexe_size_,
    pexe_bytes_compiled_ |-> pexe_bytes_compiled_,
    expected_pexe_size_ |-> expected_pexe_size_, nexe |-> nexe,
    read_pos |-> read_pos, cache_dir |-> cache_dir, notify_log |-> notify_log,
    progress_events |-> progress_events, ops |-> ops, marks |-> marks,
    other |-> other, other_result |-> other_result, request |-> request,
    first_nexe |-> first_nexe, uma_available |-> uma_available,
    uma_interface |-> uma_interface, histograms |-> histograms,
    error_pp |-> error_pp ]

Becomes(t) ==
  /\ use_new_cache_' = t.use_new_cache_
  /\ off_the_record_' = t.off_the_record_
  /\ response_validators' = t.response_validators
  /\ response_no_store' = t.response_no_store
  /\ download_total' = t.download_total
  /\ started' = t.started
  /\ destroyed' = t.destroyed
  /\ callbacks' = t.callbacks
  /\ translate_finish_error_' = t.translate_finish_error_
  /\ error_already_reported_' = t.error_already_reported_
  /\ error_code' = t.error_code
  /\ cache_validators' = t.cache_validators
  /\ is_cache_hit_' = t.is_cache_hit_
  /\ file_system_' = t.file_system_
  /\ cached_nexe_file_' = t.cached_nexe_file_
  /\ cached_read_open' = t.cached_read_open
  /\ obj_file_' = t.obj_file_
  /\ temp_nexe_file_' = t.temp_nexe_file_
  /\ translated_fd_' = t.translated_fd_
  /\ streaming_downloader_' = t.streaming_downloader_
  /\ bytes_streamed' = t.bytes_streamed
  /\ translate_thread_' = t.translate_thread_
  /\ aborted' = t.aborted
  /\ bytes_put' = t.bytes_put
  /\ pexe_size_' = t.pexe_size_
  /\ pexe_bytes_compiled_' = t.pexe_bytes_compiled_
  /\ expected_pexe_size_' = t.expected_pexe_size_
  /\ nexe' = t.nexe
  /\ read_pos' = t.read_pos
  /\ cache_dir' = t.cache_dir
  /\ notify_log' = t.notify_log
  /\ progress_events' = t.progress_events
  /\ ops' = t.ops
  /\ marks' = t.marks
  /\ other' = t.other
  /\ other_result' = t.other_result
  /\ request' = t.request
  /\ first_nexe' = t.first_nexe
  /\ uma_available' = t.uma_available
  /\ uma_interface' = t.uma_interface
  /\ histograms' = t.histograms
  /\ error_pp' = t.error_pp
  /\ UNCHANGED << router, store >>

\* An external operation is issued.
Issue(s, op) == [s EXCEPT !.ops[op] = @ + 1]
Mark(s, m) == [s EXCEPT !.marks = @ \cup {m}]

\* GetUMAInterface: the interface is fetched from the browser until a fetch
\* has given one, and kept from then on.
GetUMAInterface(s) ==
  IF s.uma_interface THEN s ELSE [s EXCEPT !.uma_interface = s.uma_available]
\* ptr->Histogram...(name, ...): a sample is handed to the interface.
HistogramSample(s, name) ==
  LET s1 == GetUMAInterface(s) IN
  IF ~s1.uma_interface THEN s1 ELSE [s1 EXCEPT !.histograms = Append(@, name)]
\* The times measured are taken to be positive.
HistogramTime(s, name) == HistogramSample(s, name)
HistogramKBPerSec(s, name, kb) == IF kb < 0 THEN s ELSE HistogramSample(s, name)
HistogramSizeKB(s, name, kb) == IF kb < 0 THEN s ELSE HistogramSample(s, name)
HistogramRatio(s, name, a, b) ==
  IF a < 0 \/ b <= 0 THEN s ELSE HistogramSample(s, name)
HistogramEnumerateTranslationCache(s, hit) ==
  HistogramSample(s, IF hit THEN "NaCl.Perf.PNaClCache.IsHit(1)"
                            ELSE "NaCl.Perf.PNaClCache.IsHit(0)")
HistogramOptLevel(s) == HistogramSample(s, "NaCl.Options.PNaCl.OptLevel")

\* callback_factory_.NewCallback(&PnaclCoordinator::h, n, o): a live callback.
Callback(h, n, o) == [h |-> h, n |-> n, o |-> o]
NewCallback(s, h) == [s EXCEPT !.callbacks = @ \cup {Callback(h, 0, 0)}]
NewCallback2(s, h, n, o) == [s EXCEPT !.callbacks = @ \cup {Callback(h, n, o)}]
\* callback_factory_.CancelAll(): no callback made so far will run.
CancelAll(s) == [s EXCEPT !.callbacks = {}]

\* The files of the cache directory.
HasFile(dir, name) == \E f \in dir : f[1] = name
FileContent(dir, name) == (CHOOSE f \in dir : f[1] = name)[2]
RemoveFile(dir, name) == { f \in dir : f[1] # name }
PutFile(dir, name, content) == RemoveFile(dir, name) \cup { << name, content >> }

\* pnacl_options_.HasCacheKey() / GetCacheKey()
HasCacheKey(s) == s.cache_validators # NoString
GetCacheKey(s) == s.cache_validators

(***************************************************************************)
(* ~PnaclCoordinator: the worker's subprocesses are aborted; the members   *)
(* are then destroyed, callback_factory_ (which cancels every callback it  *)
(* made), the downloader and the worker object among them.                 *)
(***************************************************************************)
\* A teardown after which the callbacks made so far may still run.
Destructor_KeepsCallbacks(s) ==
  LET s1 == IF s.translate_thread_ # "null"
              THEN [Issue(s, "AbortSubprocesses") EXCEPT !.aborted = TRUE]
              ELSE s
  IN [s1 EXCEPT !.destroyed = TRUE]

Destructor(s) ==
  LET s1 == IF s.translate_thread_ # "null"
              THEN [Issue(s, "AbortSubprocesses") EXCEPT !.aborted = TRUE]
              ELSE s
  IN [CancelAll(s1) EXCEPT !.destroyed = TRUE,
                           !.streaming_downloader_ = "null",
                           !.translate_thread_ = "null"]

(***************************************************************************)
(* ExitWithError, ReportNonPpapiError, ReportPpapiError.                   *)
(***************************************************************************)
\* ExitWithError without the latch: every entry runs the callback.
ExitWithError_NoLatch(s) ==
  [CancelAll(Issue(s, "ReportLoadError"))
     EXCEPT !.error_already_reported_ = TRUE,
            !.notify_log = Append(@, PP_ERROR_FAILED)]

\* ExitWithError that sets the latch and cancels, but tells nobody.
ExitWithError_Silent(s) ==
  [CancelAll(Issue(s, "ReportLoadError"))
     EXCEPT !.error_already_reported_ = TRUE]

ExitWithError(s) ==
  LET s1 == CancelAll(Issue(s, "ReportLoadError")) IN
  IF ~s1.error_already_reported_
    THEN [s1 EXCEPT !.error_already_reported_ = TRUE,
                    !.notify_log = Append(@, PP_ERROR_FAILED)]
    ELSE s1

ReportNonPpapiError(s, err_code) ==
  ExitWithError([s EXCEPT !.error_code = err_code, !.error_pp = << >>])

\* The message of the report ends with "(pp_error=<pp_error>)".
ReportPpapiError(s, err_code, pp_error) ==
  ExitWithError([s EXCEPT !.error_code = err_code,
                          !.error_pp = << pp_error >>])

(***************************************************************************)
(* The read wrapper of temp_nexe_file_ (a NaClDesc) and the cache files.   *)
(***************************************************************************)
Min(a, b) == IF a < b THEN a ELSE b

\* read_wrapper->Read(buf, sizeof buf): the bytes from the current position,
\* at most a buffer of them, or a negative result when the read fails.
ReadCount(s, ok) ==
  IF ok THEN Min(kCopyBufSize, Len(s.nexe) - s.read_pos) ELSE -1
Read(s, ok) ==
  LET n == ReadCount(s, ok) IN
  Issue([s EXCEPT !.read_pos = IF n > 0 THEN @ + n ELSE @], "Read")

\* read_wrapper->Seek(delta, SEEK_CUR)
Seek(s, delta) == [s EXCEPT !.read_pos = @ + delta]

Reset_StaysPut(s) == s

\* temp_nexe_file_->Reset(): back to the start of the file.
Reset(s) == [s EXCEPT !.read_pos = 0]

\* The bytes buf holds after the last Read of n bytes.
BufferOf(s, n) == SubSeq(s.nexe, s.read_pos - n + 1, s.read_pos)

\* FileIO::Write(offset, buf, n) that reports `written` bytes: the file with
\* data[1..written] at offset (0-based), extended as needed.
WriteAt(content, offset, data, written) ==
  LET len == IF offset + written > Len(content)
               THEN offset + written ELSE Len(content) IN
  [i \in 1..len |->
     IF i > offset /\ i <= offset + written THEN data[i - offset]
     ELSE IF i <= Len(content) THEN content[i] ELSE Garbage]

\* The handle the caller gets: which file, its bytes, the read position.
NoFd == [file |-> "none", data |-> << >>, pos |-> -1]
Fd(file, data, pos) == [file |-> file, data |-> data, pos |-> pos]

\* The name cached_nexe_file_ refers to in the cache directory.
CachedName(s) ==
  IF s.cached_nexe_file_ = "scratch" THEN ScratchName ELSE GetCacheKey(s)

(***************************************************************************)
(* NexeReadDidOpen .. CachedNexeOpenedForWrite: the end of the pipeline.   *)
(***************************************************************************)
NexeReadDidOpen(s, pp_error) ==
  IF pp_error # PP_OK THEN
    IF pp_error = PP_ERROR_FILENOTFOUND
      THEN ReportPpapiError(s, "ERROR_PNACL_CACHE_FETCH_NOTFOUND", pp_error)
    ELSE IF pp_error = PP_ERROR_NOACCESS
      THEN ReportPpapiError(s, "ERROR_PNACL_CACHE_FETCH_NOACCESS", pp_error)
    ELSE ReportPpapiError(s, "ERROR_PNACL_CACHE_FETCH_OTHER", pp_error)
  ELSE
    LET s1 ==
      IF s.cached_nexe_file_ # "null"
        THEN [s EXCEPT !.translated_fd_ =
                 Fd("cached_nexe_file_",
                    IF HasFile(s.cache_dir, CachedName(s))
                      THEN FileContent(s.cache_dir, CachedName(s)) ELSE << >>,
                    IF s.cached_read_open THEN 0 ELSE -1),
               !.cached_read_open = FALSE]
        ELSE [s EXCEPT !.translated_fd_ =
                 Fd("temp_nexe_file_", s.nexe,
                    IF s.temp_nexe_file_ = "open" THEN s.read_pos ELSE -1)]
    IN [s1 EXCEPT !.notify_log = Append(@, pp_error)]

\* NexeFileWasRenamed for which a name collision is an error like any other.
NexeFileWasRenamed_CollisionIsFatal(s, pp_error) ==
  IF pp_error # PP_OK /\ pp_error = PP_ERROR_NOACCESS
    THEN ReportPpapiError(s, "ERROR_PNACL_CACHE_FINALIZE_RENAME_NOACCESS",
                          pp_error)
  ELSE IF pp_error # PP_OK
    THEN ReportPpapiError(s, "ERROR_PNACL_CACHE_FINALIZE_RENAME_OTHER",
                          pp_error)
  ELSE
    LET s1 == Issue([s EXCEPT !.cached_nexe_file_ = "key"], "FinishRename")
    IN Issue(NewCallback(s1, "NexeReadDidOpen"), "CacheOpenRead")

NexeFileWasRenamed(s, pp_error) ==
  IF pp_error # PP_OK /\ pp_error = PP_ERROR_NOACCESS
    THEN ReportPpapiError(s, "ERROR_PNACL_CACHE_FINALIZE_RENAME_NOACCESS",
                          pp_error)
  ELSE IF pp_error # PP_OK /\ pp_error # PP_ERROR_FILEEXISTS
    THEN ReportPpapiError(s, "ERROR_PNACL_CACHE_FINALIZE_RENAME_OTHER",
                          pp_error)
  ELSE
    \* cached_nexe_file_->FinishRename(): it now names the cache key.
    LET s1 == Issue([s EXCEPT !.cached_nexe_file_ = "key"], "FinishRename")
        s2 == HistogramTime(s1, "NaCl.Perf.PNaClLoadTime.TotalUncachedTime")
        s3 == HistogramKBPerSec(
                s2, "NaCl.Perf.PNaClLoadTime.TotalUncachedKBPerSec",
                s2.pexe_size_ \div 1024)
    IN Issue(NewCallback(s3, "NexeReadDidOpen"), "CacheOpenRead")

\* CorruptCacheFileWasDeleted that reports a failed delete in place of the
\* error of the copy.
CorruptCacheFileWasDeleted_ReportsDelete(s, delete_pp_error, orig_pp_error) ==
  IF delete_pp_error # PP_OK
    THEN ReportPpapiError(s, "ERROR_PNACL_CACHE_FINALIZE_COPY_OTHER",
                          delete_pp_error)
  ELSE IF orig_pp_error = PP_ERROR_NOQUOTA
    THEN ReportPpapiError(s, "ERROR_PNACL_CACHE_FINALIZE_COPY_NOQUOTA",
                          orig_pp_error)
  ELSE IF orig_pp_error = PP_ERROR_NOSPACE
    THEN ReportPpapiError(s, "ERROR_PNACL_CACHE_FINALIZE_COPY_NOSPACE",
                          orig_pp_error)
  ELSE ReportPpapiError(s, "ERROR_PNACL_CACHE_FINALIZE_COPY_OTHER",
                        orig_pp_error)

CorruptCacheFileWasDeleted(s, delete_pp_error, orig_pp_error) ==
  IF orig_pp_error = PP_ERROR_NOQUOTA
    THEN ReportPpapiError(s, "ERROR_PNACL_CACHE_FINALIZE_COPY_NOQUOTA",
                          orig_pp_error)
  ELSE IF orig_pp_error = PP_ERROR_NOSPACE
    THEN ReportPpapiError(s, "ERROR_PNACL_CACHE_FINALIZE_COPY_NOSPACE",
                          orig_pp_error)
  ELSE ReportPpapiError(s, "ERROR_PNACL_CACHE_FINALIZE_COPY_OTHER",
                        orig_pp_error)

NexeWasCopiedToCache(s, pp_error) ==
  IF pp_error # PP_OK
    THEN Issue(NewCallback2(s, "CorruptCacheFileWasDeleted", pp_error, 0),
               "Delete")
    ELSE Issue(NewCallback(Mark(s, "copy_ok"), "NexeFileWasRenamed"), "Rename")

\* The common tail of the two copy handlers: read the next buffer and write
\* it at `offset`, or finish the copy.
CopyNextChunk(s, offset, read_ok) ==
  LET num_read == ReadCount(s, read_ok)
      s1 == Read(s, read_ok) IN
  IF num_read = 0 THEN NexeWasCopiedToCache(s1, PP_OK)
  ELSE IF num_read < 0 THEN NexeWasCopiedToCache(s1, PP_ERROR_FAILED)
  ELSE Issue(NewCallback2(s1, "DidCopyNexeToCachePartial", num_read, offset),
             "Write")

\* DidCopyNexeToCachePartial that advances the offset by what was read, not
\* by what was written.
DidCopyNexeToCachePartial_OffsetByRead(s, pp_error, num_read_prev, cur_offset, seek_ok, read_ok) ==
  IF pp_error = PP_OK THEN NexeWasCopiedToCache(s, PP_OK)
  ELSE IF pp_error < PP_OK THEN NexeWasCopiedToCache(s, pp_error)
  ELSE IF pp_error # num_read_prev /\ ~seek_ok
    THEN NexeWasCopiedToCache(s, PP_ERROR_FAILED)
  ELSE
    LET s1 == IF pp_error # num_read_prev
                THEN Seek(s, pp_error - num_read_prev) ELSE s
    IN CopyNextChunk(s1, cur_offset + num_read_prev, read_ok)

DidCopyNexeToCachePartial(s, pp_error, num_read_prev, cur_offset, seek_ok, read_ok) ==
  IF pp_error = PP_OK THEN NexeWasCopiedToCache(s, PP_OK)
  ELSE IF pp_error < PP_OK THEN NexeWasCopiedToCache(s, pp_error)
  ELSE IF pp_error # num_read_prev /\ ~seek_ok
    THEN NexeWasCopiedToCache(s, PP_ERROR_FAILED)
  ELSE
    LET s1 == IF pp_error # num_read_prev
                THEN Seek(s, pp_error - num_read_prev) ELSE s
        next_offset == cur_offset + pp_error
    IN CopyNextChunk(s1, next_offset, read_ok)

\* CachedNexeOpenedForWrite without the branch for PP_ERROR_NOTAFILE.
CachedNexeOpenedForWrite_NoNotAFile(s, pp_error, read_ok) ==
  IF pp_error # PP_OK THEN
    IF pp_error = PP_ERROR_NOACCESS
      THEN ReportPpapiError(s, "ERROR_PNACL_CACHE_FILEOPEN_NOACCESS", pp_error)
    ELSE IF pp_error = PP_ERROR_NOQUOTA
      THEN ReportPpapiError(s, "ERROR_PNACL_CACHE_FILEOPEN_NOQUOTA", pp_error)
    ELSE IF pp_error = PP_ERROR_NOSPACE
      THEN ReportPpapiError(s, "ERROR_PNACL_CACHE_FILEOPEN_NOSPACE", pp_error)
    ELSE ReportPpapiError(s, "ERROR_PNACL_CACHE_FILEOPEN_OTHER", pp_error)
  ELSE CopyNextChunk(s, 0, read_ok)

CachedNexeOpenedForWrite(s, pp_error, read_ok) ==
  IF pp_error # PP_OK THEN
    IF pp_error = PP_ERROR_NOACCESS
      THEN ReportPpapiError(s, "ERROR_PNACL_CACHE_FILEOPEN_NOACCESS", pp_error)
    ELSE IF pp_error = PP_ERROR_NOQUOTA
      THEN ReportPpapiError(s, "ERROR_PNACL_CACHE_FILEOPEN_NOQUOTA", pp_error)
    ELSE IF pp_error = PP_ERROR_NOSPACE
      THEN ReportPpapiError(s, "ERROR_PNACL_CACHE_FILEOPEN_NOSPACE", pp_error)
    ELSE IF pp_error = PP_ERROR_NOTAFILE
      THEN ReportPpapiError(s, "ERROR_PNACL_CACHE_FILEOPEN_NOTAFILE", pp_error)
    ELSE ReportPpapiError(s, "ERROR_PNACL_CACHE_FILEOPEN_OTHER", pp_error)
  ELSE CopyNextChunk(s, 0, read_ok)

(***************************************************************************)
(* Progress events (BitcodeGotCompiled, and the last one of                *)
(* TranslateFinished).                                                     *)
(***************************************************************************)
kProgressEventSlopPct == 5

ExpectedProgressKnown(s) == s.expected_pexe_size_ # -1

\* int64 division truncates toward zero
ShouldDelayProgressEvent(s) ==
  LET num == (s.expected_pexe_size_ - s.pexe_bytes_compiled_) * 100
      quot == IF num >= 0 THEN num \div s.expected_pexe_size_
                          ELSE -((-num) \div s.expected_pexe_size_)
  IN quot < kProgressEventSlopPct

EnqueueProgressEvent(s, computable) ==
  [s EXCEPT !.progress_events =
     Append(@, [computable |-> computable, loaded |-> s.pexe_bytes_compiled_,
                total |-> s.expected_pexe_size_])]

\* The totals the downloader can report for a pexe of PexeSize bytes: none,
\* the size of the body, or a smaller number (the length of an encoded body).
DownloadTotals == { -1, PexeSize - 1, PexeSize }

\* streaming_downloader_->GetDownloadProgress(&amount, &expected_pexe_size_)
GetDownloadProgress(s) ==
  Issue([s EXCEPT !.expected_pexe_size_ =
           s.download_total],
        "GetDownloadProgress")

BitcodeGotCompiled_NoDelay(s, pp_error, bytes_compiled) ==
  LET s1 == [s EXCEPT !.pexe_bytes_compiled_ = @ + bytes_compiled]
      s2 == IF ~ExpectedProgressKnown(s1) THEN GetDownloadProgress(s1) ELSE s1
  IN EnqueueProgressEvent(s2, ExpectedProgressKnown(s2))

\* BitcodeGotCompiled that asks for the total on every call.
BitcodeGotCompiled_AlwaysAsks(s, pp_error, bytes_compiled) ==
  LET s1 == [s EXCEPT !.pexe_bytes_compiled_ = @ + bytes_compiled]
      s2 == GetDownloadProgress(s1)
  IN IF ExpectedProgressKnown(s2)
       THEN IF ~ShouldDelayProgressEvent(s2)
              THEN EnqueueProgressEvent(s2, TRUE) ELSE s2
       ELSE EnqueueProgressEvent(s2, FALSE)

BitcodeGotCompiled(s, pp_error, bytes_compiled) ==
  LET s1 == [s EXCEPT !.pexe_bytes_compiled_ = @ + bytes_compiled]
      s2 == IF ~ExpectedProgressKnown(s1) THEN GetDownloadProgress(s1) ELSE s1
  IN IF ExpectedProgressKnown(s2)
       THEN IF ~ShouldDelayProgressEvent(s2)
              THEN EnqueueProgressEvent(s2, TRUE) ELSE s2
       ELSE EnqueueProgressEvent(s2, FALSE)

\* BitcodeStreamGotData that counts the chunk and keeps it from the worker.
BitcodeStreamGotData_CountsOnly(s, pp_error) ==
  IF pp_error > 0 THEN [s EXCEPT !.pexe_size_ = @ + pp_error] ELSE s

BitcodeStreamGotData(s, pp_error) ==
  \* translate_thread_->PutBytes(data, pp_error)
  LET s1 == Issue([s EXCEPT !.bytes_put = @ + pp_error], "PutBytes")
  IN IF pp_error > 0 THEN [s1 EXCEPT !.pexe_size_ = @ + pp_error] ELSE s1

(***************************************************************************)
(* TranslateFinished and the stream handlers.                              *)
(***************************************************************************)
\* TranslationStats for which a nexe that cannot be stat'ed is an error.
TranslationStats_StatFailureIsError(s, stat_ret) ==
  IF 0 # stat_ret THEN [s EXCEPT !.translate_finish_error_ = PP_ERROR_FAILED]
  ELSE HistogramSizeKB(HistogramOptLevel(s), "NaCl.Perf.Size.Pexe",
                       s.pexe_size_ \div 1024)

\* The statistics TranslateFinished reports when there was no error:
\* those of the worker, and the size of the nexe when it can be stat'ed.
StatResults == { 0, -1 }
TranslationStats(s, stat_ret) ==
  LET h1 == HistogramOptLevel(s)
      h2 == HistogramTime(h1, "NaCl.Perf.PNaClLoadTime.LoadCompiler")
      h3 == HistogramTime(h2, "NaCl.Perf.PNaClLoadTime.CompileTime")
      h4 == HistogramKBPerSec(h3, "NaCl.Perf.PNaClLoadTime.CompileKBPerSec",
                              h3.pexe_size_ \div 1024)
      h5 == HistogramTime(h4, "NaCl.Perf.PNaClLoadTime.LoadLinker")
      h6 == HistogramTime(h5, "NaCl.Perf.PNaClLoadTime.LinkTime")
      h7 == HistogramSizeKB(h6, "NaCl.Perf.Size.Pexe", h6.pexe_size_ \div 1024)
  IN IF 0 # stat_ret THEN h7
     ELSE HistogramRatio(
            HistogramSizeKB(h7, "NaCl.Perf.Size.PNaClTranslatedNexe",
                            Len(h7.nexe) \div 1024),
            "NaCl.Perf.Size.PexeNexeSizePct", h7.pexe_size_, Len(h7.nexe))

\* TranslateFinished that copies into the file named by the cache key,
\* without a scratch file.
TranslateFinished_NoScratch(s, pp_error, stat_ret) ==
  IF s.translate_finish_error_ # PP_OK THEN ExitWithError(s)
  ELSE IF pp_error # PP_OK THEN ExitWithError(s)
  ELSE
    LET s2 == Mark(Reset(s), "translate_ok")
    IN IF s2.use_new_cache_
         THEN NexeReadDidOpen(Issue(s2, "ReportTranslationFinished"), PP_OK)
       ELSE IF HasCacheKey(s2) /\ s2.cached_nexe_file_ # "null"
         THEN Issue(NewCallback([s2 EXCEPT !.cached_read_open = FALSE],
                                "CachedNexeOpenedForWrite"),
                    "ScratchOpenWrite")
       ELSE NexeReadDidOpen(s2, PP_OK)

TranslateFinished_EventFirst(s, pp_error, stat_ret) ==
  LET s1 == IF ExpectedProgressKnown(s)
              THEN EnqueueProgressEvent(
                     [s EXCEPT !.pexe_bytes_compiled_ = s.expected_pexe_size_],
                     TRUE)
              ELSE s
      s2 == Mark(Reset(s1), "translate_ok")
  IN IF s.translate_finish_error_ # PP_OK \/ pp_error # PP_OK
       THEN ExitWithError(s1)
     ELSE IF s2.use_new_cache_
       THEN NexeReadDidOpen(Issue(s2, "ReportTranslationFinished"), PP_OK)
     ELSE IF HasCacheKey(s2) /\ s2.cached_nexe_file_ # "null"
       THEN Issue(NewCallback([s2 EXCEPT !.cached_nexe_file_ = "scratch",
                                         !.cached_read_open = FALSE],
                              "CachedNexeOpenedForWrite"),
                  "ScratchOpenWrite")
     ELSE NexeReadDidOpen(s2, PP_OK)

\* TranslateFinished that looks at the worker's result only.
TranslateFinished_IgnoresStreamError(s, pp_error, stat_ret) ==
  IF pp_error # PP_OK THEN ExitWithError(s)
  ELSE
    LET s1 == IF ExpectedProgressKnown(s)
                THEN EnqueueProgressEvent(
                       [s EXCEPT !.pexe_bytes_compiled_ = s.expected_pexe_size_],
                       TRUE)
                ELSE s
        s2 == Mark(Reset(s1), "translate_ok")
    IN IF s2.use_new_cache_
         THEN NexeReadDidOpen(Issue(s2, "ReportTranslationFinished"), PP_OK)
       ELSE IF HasCacheKey(s2) /\ s2.cached_nexe_file_ # "null"
         THEN Issue(NewCallback([s2 EXCEPT !.cached_nexe_file_ = "scratch",
                                           !.cached_read_open = FALSE],
                                "CachedNexeOpenedForWrite"),
                    "ScratchOpenWrite")
       ELSE NexeReadDidOpen(s2, PP_OK)

TranslateFinished(s, pp_error, stat_ret) ==
  IF s.translate_finish_error_ # PP_OK THEN ExitWithError(s)
  ELSE IF pp_error # PP_OK THEN ExitWithError(s)
  ELSE
    LET s1 == IF ExpectedProgressKnown(s)
                THEN EnqueueProgressEvent(
                       [s EXCEPT !.pexe_bytes_compiled_ = s.expected_pexe_size_],
                       TRUE)
                ELSE s
        s2 == Mark(Reset(TranslationStats(s1, stat_ret)), "translate_ok")
    IN IF s2.use_new_cache_
         THEN NexeReadDidOpen(Issue(s2, "ReportTranslationFinished"), PP_OK)
       ELSE IF HasCacheKey(s2) /\ s2.cached_nexe_file_ # "null"
         THEN Issue(NewCallback([s2 EXCEPT !.cached_nexe_file_ = "scratch",
                                           !.cached_read_open = FALSE],
                                "CachedNexeOpenedForWrite"),
                    "ScratchOpenWrite")
       ELSE NexeReadDidOpen(s2, PP_OK)

\* BitcodeStreamDidFinish that lets go of the downloader once the download
\* is complete.
BitcodeStreamDidFinish_DropsDownloader(s, pp_error) ==
  IF pp_error # PP_OK THEN
    Issue([s EXCEPT !.translate_finish_error_ = pp_error,
                    !.error_code = IF pp_error = PP_ERROR_NOACCESS
                                     THEN "ERROR_PNACL_PEXE_FETCH_NOACCESS"
                                     ELSE "ERROR_PNACL_PEXE_FETCH_OTHER",
                    !.aborted = TRUE],
          "AbortSubprocesses")
  ELSE [s EXCEPT !.streaming_downloader_ = "null"]

\* BitcodeStreamDidFinish that reports the failure to the caller at once.
BitcodeStreamDidFinish_ReportsAtOnce(s, pp_error) ==
  IF pp_error # PP_OK
    THEN ReportPpapiError(
           Issue([s EXCEPT !.translate_finish_error_ = pp_error,
                           !.aborted = TRUE],
                 "AbortSubprocesses"),
           "ERROR_PNACL_PEXE_FETCH_OTHER", pp_error)
    ELSE s

BitcodeStreamDidFinish(s, pp_error) ==
  IF pp_error # PP_OK THEN
    LET c1 == IF pp_error = PP_ERROR_ABORTED
                THEN "ERROR_PNACL_PEXE_FETCH_ABORTED" ELSE s.error_code
        c2 == IF pp_error = PP_ERROR_NOACCESS
                THEN "ERROR_PNACL_PEXE_FETCH_NOACCESS"
                ELSE "ERROR_PNACL_PEXE_FETCH_OTHER"
    IN Issue([s EXCEPT !.translate_finish_error_ = pp_error,
                       !.error_code = c2,
                       !.error_pp = IF pp_error = PP_ERROR_NOACCESS
                                      THEN << >> ELSE << pp_error >>,
                       !.aborted = TRUE],
             "AbortSubprocesses")
  ELSE HistogramRatio(
         s, "NaCl.Perf.PNaClLoadTime.PctCompiledWhenFullyDownloaded",
         s.pexe_bytes_compiled_, s.pexe_size_)

\* streaming_downloader_->FinishStreaming(cb)
FinishStreaming(s) ==
  Issue(NewCallback([s EXCEPT !.streaming_downloader_ = "streaming"],
                    "BitcodeStreamDidFinish"),
        "FinishStreaming")

\* CachedFileDidOpen that streams whatever the probe said.
CachedFileDidOpen_AlwaysStreams(s, pp_error) == FinishStreaming(s)

CachedFileDidOpen(s, pp_error) ==
  IF pp_error = PP_OK
    THEN NexeReadDidOpen(
           HistogramEnumerateTranslationCache(
             Mark([s EXCEPT !.streaming_downloader_ = "null"], "cache_hit"),
             TRUE),
           PP_OK)
    ELSE FinishStreaming(HistogramEnumerateTranslationCache(s, FALSE))

\* obj_file_.reset(new TempFile(plugin_)); obj_file_->Open(obj_cb, true)
OpenObjectFile(s) ==
  Issue(NewCallback([s EXCEPT !.obj_file_ = "created"], "ObjectFileDidOpen"),
        "ObjFileOpen")

NexeFdDidOpen(s, pp_error, fd_ok) ==
  IF pp_error < PP_OK
    THEN ReportPpapiError(s, "ERROR_PNACL_CREATE_TEMP", pp_error)
  ELSE
    LET s1 == [s EXCEPT !.temp_nexe_file_ = "created"] IN
    IF ~fd_ok THEN ReportNonPpapiError(s1, "ERROR_PNACL_CREATE_TEMP")
    ELSE IF s1.is_cache_hit_
      THEN Issue(NewCallback2(
                   Mark([s1 EXCEPT !.streaming_downloader_ = "null"],
                        "cache_hit"),
                   "NexeReadDidOpen", 1, 0),
                 "NexeReadOpen")
      ELSE FinishStreaming(OpenObjectFile(s1))

\* plugin_->nacl_interface()->GetNexeFd(..., &is_cache_hit_, &nexe_handle_, cb):
\* the browser's cache answers with a hit when it holds the key, and the
\* handle is then the cached nexe.
GetNexeFd(s) ==
  LET hit == HasFile(s.cache_dir, GetCacheKey(s)) IN
  Issue([s EXCEPT !.is_cache_hit_ = hit,
                  !.nexe = IF hit THEN FileContent(s.cache_dir, GetCacheKey(s))
                           ELSE @],
        "GetNexeFd")

\* BitcodeStreamDidOpen that keys the cache by the URL alone whatever the
\* response headers say.
BitcodeStreamDidOpen_IgnoresNoStore(s, pp_error, nexe_fd_err) ==
  IF pp_error # PP_OK THEN
    LET s1 == BitcodeStreamDidFinish(s, pp_error) IN
    IF s1.use_new_cache_ THEN TranslateFinished(s1, pp_error, 0) ELSE s1
  ELSE IF ~s.off_the_record_ THEN
    LET s1 == [Mark(s, "headers_parsed")
                 EXCEPT !.cache_validators = s.response_validators \o Url]
    IN IF s1.use_new_cache_
         THEN LET s2 == GetNexeFd(NewCallback(s1, "NexeFdDidOpen")) IN
              IF nexe_fd_err < PP_OK_COMPLETIONPENDING
                THEN ReportPpapiError(s2, "ERROR_PNACL_CREATE_TEMP", nexe_fd_err)
                ELSE s2
         ELSE Issue(NewCallback([s1 EXCEPT !.cached_nexe_file_ = "key"],
                                "CachedFileDidOpen"),
                    "ProbeOpenRead")
  ELSE CachedFileDidOpen(s, PP_ERROR_FAILED)

BitcodeStreamDidOpen_KeyWithoutUrl(s, pp_error, nexe_fd_err) ==
  IF pp_error # PP_OK THEN
    LET s1 == BitcodeStreamDidFinish(s, pp_error) IN
    IF s1.use_new_cache_ THEN TranslateFinished(s1, pp_error, 0) ELSE s1
  ELSE IF ~s.off_the_record_ THEN
    LET s0 == Mark(s, "headers_parsed") IN
    IF s0.response_no_store \/ s0.response_validators = NoString
      THEN CachedFileDidOpen([s0 EXCEPT !.cache_validators = NoString],
                             PP_ERROR_FAILED)
    ELSE
      LET s1 == [s0 EXCEPT !.cache_validators = s0.response_validators]
      IN IF s1.use_new_cache_
           THEN LET s2 == GetNexeFd(NewCallback(s1, "NexeFdDidOpen")) IN
                IF nexe_fd_err < PP_OK_COMPLETIONPENDING
                  THEN ReportPpapiError(s2, "ERROR_PNACL_CREATE_TEMP",
                                        nexe_fd_err)
                  ELSE s2
           ELSE Issue(NewCallback([s1 EXCEPT !.cached_nexe_file_ = "key"],
                                  "CachedFileDidOpen"),
                      "ProbeOpenRead")
  ELSE CachedFileDidOpen(s, PP_ERROR_FAILED)

BitcodeStreamDidOpen(s, pp_error, nexe_fd_err) ==
  IF pp_error # PP_OK THEN
    \* TranslateFinished(pp_error) bails out here before it stats the nexe.
    LET s1 == BitcodeStreamDidFinish(s, pp_error) IN
    IF s1.use_new_cache_ THEN TranslateFinished(s1, pp_error, 0) ELSE s1
  ELSE IF ~s.off_the_record_ THEN
    LET s0 == Mark(s, "headers_parsed") IN
    IF s0.response_no_store \/ s0.response_validators = NoString
      THEN CachedFileDidOpen([s0 EXCEPT !.cache_validators = NoString],
                             PP_ERROR_FAILED)
    ELSE
      LET s1 == [s0 EXCEPT !.cache_validators = s0.response_validators \o Url]
      IN IF s1.use_new_cache_
           THEN LET s2 == GetNexeFd(NewCallback(s1, "NexeFdDidOpen")) IN
                IF nexe_fd_err < PP_OK_COMPLETIONPENDING
                  THEN ReportPpapiError(s2, "ERROR_PNACL_CREATE_TEMP",
                                        nexe_fd_err)
                  ELSE s2
           ELSE Issue(NewCallback([s1 EXCEPT !.cached_nexe_file_ = "key"],
                                  "CachedFileDidOpen"),
                      "ProbeOpenRead")
  ELSE CachedFileDidOpen(s, PP_ERROR_FAILED)

(***************************************************************************)
(* OpenBitcodeStream and the handlers before it.                           *)
(***************************************************************************)
\* stream_ok: what streaming_downloader_->OpenStream(pexe_url_, cb, this)
\* returns.
OpenBitcodeStream(s, stream_ok) ==
  LET s1 == [s EXCEPT !.streaming_downloader_ = "opening",
                      !.translate_thread_ = "created"]
      s2 == IF ~s1.use_new_cache_ THEN OpenObjectFile(s1) ELSE s1
      s3 == Issue(NewCallback(s2, "BitcodeStreamDidOpen"), "OpenStream")
  IN IF ~stream_ok
       THEN ReportNonPpapiError(s3, "ERROR_PNACL_PEXE_FETCH_OTHER")
       ELSE s3

DirectoryWasCreated(s, pp_error, stream_ok) ==
  IF pp_error # PP_ERROR_FILEEXISTS /\ pp_error # PP_OK
    THEN ReportPpapiError(s, "ERROR_PNACL_CACHE_DIRECTORY_CREATE", pp_error)
    ELSE OpenBitcodeStream(s, stream_ok)

FileSystemDidOpen(s, pp_error) ==
  IF pp_error # PP_OK /\ pp_error = PP_ERROR_NOACCESS
    THEN ReportPpapiError(s, "ERROR_PNACL_CACHE_OPEN_NOACCESS", pp_error)
  ELSE IF pp_error # PP_OK /\ pp_error = PP_ERROR_NOQUOTA
    THEN ReportPpapiError(s, "ERROR_PNACL_CACHE_OPEN_NOQUOTA", pp_error)
  ELSE IF pp_error # PP_OK /\ pp_error = PP_ERROR_NOSPACE
    THEN ReportPpapiError(s, "ERROR_PNACL_CACHE_OPEN_NOSPACE", pp_error)
  ELSE
    \* Any other error is reported too, but that branch does not return:
    \* the directory is created all the same.
    LET s1 == IF pp_error # PP_OK
                THEN ReportPpapiError(s, "ERROR_PNACL_CACHE_OPEN_OTHER",
                                      pp_error)
                ELSE s
    IN Issue(NewCallback(s1, "DirectoryWasCreated"), "MakeDirectory")

\* ResourcesDidLoad without the test of off_the_record_.
ResourcesDidLoad_CachesOffTheRecord(s, pp_error, open_error, stream_ok) ==
  IF pp_error # PP_OK THEN s
  ELSE
    LET s0 == Mark(s, "resources_loaded") IN
    IF s0.use_new_cache_ THEN OpenBitcodeStream(s0, stream_ok)
    ELSE
      LET s1 == Issue(NewCallback([s0 EXCEPT !.file_system_ = "opening"],
                                  "FileSystemDidOpen"),
                      "FileSystemOpen")
      IN IF open_error # PP_OK_COMPLETIONPENDING
           THEN ReportPpapiError(s1, "ERROR_PNACL_CACHE_OPEN_OTHER", pp_error)
           ELSE s1

\* open_error: what file_system_->Open(0, cb) returns.
ResourcesDidLoad(s, pp_error, open_error, stream_ok) ==
  IF pp_error # PP_OK THEN s
  ELSE
    LET s0 == Mark(s, "resources_loaded") IN
    IF ~s0.off_the_record_ THEN
      IF s0.use_new_cache_ THEN OpenBitcodeStream(s0, stream_ok)
      ELSE
        LET s1 == Issue(NewCallback([s0 EXCEPT !.file_system_ = "opening"],
                                    "FileSystemDidOpen"),
                        "FileSystemOpen")
        IN IF open_error # PP_OK_COMPLETIONPENDING
             THEN IF pp_error = PP_ERROR_INPROGRESS
                    THEN ReportPpapiError(s1, "ERROR_PNACL_CACHE_OPEN_INPROGRESS",
                                          pp_error)
                    ELSE ReportPpapiError(s1, "ERROR_PNACL_CACHE_OPEN_OTHER",
                                          pp_error)
             ELSE s1
    ELSE OpenBitcodeStream(s0, stream_ok)

\* PnaclResources::StartLoad(cb): when a resource cannot be opened it reports
\* the error to the coordinator itself, and only then schedules cb, with the
\* error.
StartLoad(s, cb, load_ok) ==
  LET s1 == Issue(s, "StartLoad") IN
  IF load_ok THEN s1
  ELSE LET s2 == ReportNonPpapiError(Mark(s1, "resource_load_failed"),
                                     "ERROR_PNACL_RESOURCE_FETCH")
       IN IF cb \in s2.callbacks
            THEN [s2 EXCEPT !.callbacks =
                    (@ \ {cb}) \cup {[cb EXCEPT !.n = PP_ERROR_FILENOTFOUND]}]
            ELSE s2

\* PnaclResources::ReadResourceInfo(url, cb): a resource info file that
\* cannot be read is reported to the coordinator and cb is never scheduled.
ReadResourceInfo(s, cb, info_ok) ==
  LET s1 == Issue(s, "ReadResourceInfo") IN
  IF info_ok THEN s1
  ELSE [ReportNonPpapiError(Mark(s1, "resource_load_failed"),
                            "ERROR_PNACL_RESOURCE_FETCH")
          EXCEPT !.callbacks = @ \ {cb}]

ResourceInfoWasRead(s, pp_error, load_ok) ==
  StartLoad(NewCallback(s, "ResourcesDidLoad"),
            Callback("ResourcesDidLoad", 0, 0), load_ok)

\* The rest of BitcodeToNative, after the constructor.
BitcodeToNative(s, info_ok) ==
  ReadResourceInfo(NewCallback([s EXCEPT !.started = TRUE],
                               "ResourceInfoWasRead"),
                   Callback("ResourceInfoWasRead", 0, 0), info_ok)

\* ObjectFileDidOpen that launches the worker without opening the nexe file.
ObjectFileDidOpen_LaunchesAtOnce(s, pp_error) ==
  IF pp_error # PP_OK
    THEN ReportPpapiError(s, "ERROR_PNACL_CREATE_TEMP", pp_error)
    ELSE Issue(NewCallback([s EXCEPT !.translate_thread_ = "running"],
                           "TranslateFinished"),
               "RunTranslate")

ObjectFileDidOpen(s, pp_error) ==
  IF pp_error # PP_OK
    THEN ReportPpapiError(s, "ERROR_PNACL_CREATE_TEMP", pp_error)
  ELSE
    LET s1 == IF ~s.use_new_cache_
                THEN [s EXCEPT !.temp_nexe_file_ = "created"] ELSE s
    IN Issue(NewCallback(s1, "RunTranslate"), "NexeFileOpen")

RunTranslate(s, pp_error) ==
  Issue(NewCallback([s EXCEPT !.translate_thread_ = "running"],
                    "TranslateFinished"),
        "RunTranslate")

(***************************************************************************)
(* The state after the constructor.                                        *)
(***************************************************************************)
\* A translation an earlier request committed under the same key.
CommittedEntry == << 8, 9 >>

(***************************************************************************)
(* SystemInfoEventRouter (system_info_api.cc): listeners are counted per   *)
(* event name in a multiset; the storages are watched from the first       *)
(* listener of the capacity event on.  The record holds the router and     *)
(* what it has asked of the StorageInfoProvider and of the screen.         *)
(***************************************************************************)
MaxListeners == 2
MaxRouterCalls == 4
kOnStorageAvailableCapacityChanged == "onAvailableCapacityChanged"
kOnDisplayChanged == "onDisplayChanged"
kOnStorageAttached == "onAttached"
EventNames ==
  { kOnStorageAvailableCapacityChanged, kOnDisplayChanged, kOnStorageAttached }
StorageIds == { "s1", "s2" }
QueryCallbacks == { "StartWatchingStorages", "StopWatchingStorages" }

IsDisplayChangedEvent(event_name) == event_name = kOnDisplayChanged
IsAvailableCapacityChangedEvent(event_name) ==
  event_name = kOnStorageAvailableCapacityChanged

\* use_ash: the build defines USE_ASH.
RouterConstructed(use_ash) ==
  [ watching_event_set_ |-> [e \in EventNames |-> 0],
    pending |-> [q \in QueryCallbacks |-> 0],
    queries |-> [q \in QueryCallbacks |-> 0],
    start_watching |-> [id \in StorageIds |-> 0],
    stop_watching |-> [id \in StorageIds |-> 0],
    screen_add |-> 0, screen_remove |-> 0,
    use_ash |-> use_ash, calls |-> 0 ]

\* StorageInfoProvider::Get()->StartQueryInfo(base::Bind(q, this)): the
\* provider will call q back with the storages it found.
StartQueryInfo(r, q) ==
  [r EXCEPT !.pending[q] = @ + 1, !.queries[q] = @ + 1]

AddEventListener(r, event_name) ==
  LET r1 == [r EXCEPT !.watching_event_set_[event_name] = @ + 1,
                      !.calls = @ + 1]
  IN IF r1.watching_event_set_[event_name] > 1 THEN r1
     ELSE IF IsAvailableCapacityChangedEvent(event_name)
       THEN StartQueryInfo(r1, "StartWatchingStorages")
     ELSE IF IsDisplayChangedEvent(event_name) /\ r1.use_ash
       THEN [r1 EXCEPT !.screen_add = @ + 1]
     ELSE r1

\* find() and erase(it) take one instance out, if there is one.
RemoveEventListener(r, event_name) ==
  LET r1 == [r EXCEPT !.watching_event_set_[event_name] =
                         IF @ > 0 THEN @ - 1 ELSE @,
                      !.calls = @ + 1]
  IN IF r1.watching_event_set_[event_name] > 0 THEN r1
     ELSE
       LET r2 == IF IsAvailableCapacityChangedEvent(event_name)
                   THEN StartQueryInfo(r1, "StopWatchingStorages")
                   ELSE r1
       IN IF IsDisplayChangedEvent(event_name) /\ r2.use_ash
            THEN [r2 EXCEPT !.screen_remove = @ + 1]
            ELSE r2

\* info: the ids of the storages the provider reports.
StartWatchingStorages(r, info, success) ==
  IF ~success THEN r
  ELSE [r EXCEPT !.start_watching =
          [id \in StorageIds |-> IF id \in info THEN @[id] + 1 ELSE @[id]]]

StopWatchingStorages(r, info, success) ==
  IF ~success THEN r
  ELSE [r EXCEPT !.stop_watching =
          [id \in StorageIds |-> IF id \in info THEN @[id] + 1 ELSE @[id]]]

(***************************************************************************)
(* DomDistillerStore (dom_distiller_store.cc).  An entry is its id, a list *)
(* of changes or of sync data the set of the ids it is about.  The record  *)
(* holds the members of the store, the callbacks it has handed to the      *)
(* database, and what has gone wrong.                                      *)
(***************************************************************************)
MaxStoreCalls == 3
EntryIds == { "a", "b" }
DatabaseCallbacks == { "OnDatabaseInit", "OnDatabaseLoad", "OnDatabaseSave" }

\* The constructor: database_->Init(database_dir, OnDatabaseInit).
\* dcheck_on: the build keeps DCHECKs.
StoreConstructed(dcheck_on) ==
  [ database_ |-> TRUE, database_loaded_ |-> FALSE, model_ |-> {},
    sync_processor_ |-> FALSE,
    pending |-> [c \in DatabaseCallbacks |->
                   IF c = "OnDatabaseInit" THEN 1 ELSE 0],
    save_entries |-> 0, null_deref |-> FALSE, dcheck_failed |-> FALSE,
    dcheck_on |-> dcheck_on, failed |-> FALSE, added |-> 0, calls |-> 0 ]

\* database_->f(..., cb): a call through a NULL scoped_ptr is recorded,
\* whatever it does next; otherwise cb is with the database.
DatabaseCall(s, cb) ==
  IF ~s.database_ THEN [s EXCEPT !.null_deref = TRUE]
  ELSE [s EXCEPT !.pending[cb] = @ + 1]

StopSyncing(s) == [s EXCEPT !.sync_processor_ = FALSE]

\* change_ok: model_.ApplyChangesToModel gives SUCCESS, as it does when there
\* is nothing to apply.  The result is the store and what the function
\* returns.
ApplyChangesToModel(s, changes, change_ok) ==
  IF change_ok \/ changes = {}
    THEN [s |-> [s EXCEPT !.model_ = @ \cup changes], ok |-> TRUE]
    ELSE [s |-> StopSyncing([s EXCEPT !.database_ = FALSE,
                                      !.database_loaded_ = FALSE,
                                      !.failed = TRUE]),
          ok |-> FALSE]

\* sync_ok: sync_processor_->ProcessSyncChanges reports no error.
ApplyChangesToSync(s, change_list, sync_ok) ==
  IF ~s.sync_processor_ THEN s
  ELSE IF change_list = {} THEN s
  ELSE IF ~sync_ok THEN StopSyncing(s)
  ELSE s

ApplyChangesToDatabase(s, change_list) ==
  IF ~s.database_loaded_ THEN s
  ELSE IF change_list = {} THEN s
  ELSE LET s1 == DatabaseCall(s, "OnDatabaseSave") IN
       IF s1.null_deref THEN s1 ELSE [s1 EXCEPT !.save_entries = @ + 1]

\* The result is the store, the changes applied to the model and the
\* entries the data lacks.
MergeDataWithModel(s, data, change_ok) ==
  LET changes_to_apply == data \ s.model_
      r == ApplyChangesToModel(s, changes_to_apply, change_ok)
  IN [s |-> r.s,
      changes_applied |-> IF r.ok THEN changes_to_apply ELSE {},
      changes_missing |-> s.model_ \ data]

\* added counts the calls that return true.
AddEntry(s, entry, change_ok, sync_ok) ==
  LET s0 == [s EXCEPT !.calls = @ + 1] IN
  IF ~s0.database_loaded_ THEN s0
  ELSE IF entry \in s0.model_ THEN s0
  ELSE
    LET r == ApplyChangesToModel(s0, { entry }, change_ok) IN
    IF ~r.ok THEN r.s
    ELSE
      LET s1 == ApplyChangesToSync(r.s, { entry }, sync_ok)
          s2 == ApplyChangesToDatabase(s1, { entry })
      IN [s2 EXCEPT !.added = @ + 1]

MergeDataAndStartSyncing(s, initial_sync_data, change_ok, sync_ok) ==
  LET s0 == [s EXCEPT !.calls = @ + 1, !.sync_processor_ = TRUE]
      r == MergeDataWithModel(s0, initial_sync_data, change_ok)
      s1 == ApplyChangesToDatabase(r.s, r.changes_applied)
  IN ApplyChangesToSync(s1, r.changes_missing, sync_ok)

\* DCHECK(database_loaded_) stops a build that keeps DCHECKs.
ProcessSyncChanges(s, change_list, change_ok) ==
  LET s0 == [s EXCEPT !.calls = @ + 1] IN
  IF s0.dcheck_on /\ ~s0.database_loaded_
    THEN [s0 EXCEPT !.dcheck_failed = TRUE]
  ELSE
    LET r == ApplyChangesToModel(s0, change_list, change_ok) IN
    IF ~r.ok THEN r.s ELSE ApplyChangesToDatabase(r.s, change_list)

OnDatabaseInit(s, success) ==
  IF ~success THEN [s EXCEPT !.database_ = FALSE]
  ELSE DatabaseCall(s, "OnDatabaseLoad")

OnDatabaseLoad(s, success, entries, change_ok) ==
  IF ~success THEN [s EXCEPT !.database_ = FALSE]
  ELSE
    LET r == MergeDataWithModel([s EXCEPT !.database_loaded_ = TRUE],
                                entries, change_ok)
    IN ApplyChangesToDatabase(r.s, r.changes_missing)

OnDatabaseSave(s, success) ==
  IF ~success
    THEN StopSyncing([s EXCEPT !.database_ = FALSE,
                               !.database_loaded_ = FALSE, !.failed = TRUE])
    ELSE s

\* The members as the constructor leaves them, and the objects around the
\* coordinator before it has used them.
Constructed ==
  /\ started = FALSE
  /\ destroyed = FALSE
  /\ callbacks = {}
  /\ translate_finish_error_ = PP_OK
  /\ error_already_reported_ = FALSE
  /\ error_code = "ERROR_UNKNOWN"
  /\ cache_validators = NoString
  /\ is_cache_hit_ = FALSE
  /\ file_system_ = "closed"
  /\ cached_nexe_file_ = "null"
  /\ cached_read_open = FALSE
  /\ obj_file_ = "null"
  /\ temp_nexe_file_ = "null"
  /\ translated_fd_ = NoFd
  /\ streaming_downloader_ = "null"
  /\ bytes_streamed = 0
  /\ translate_thread_ = "null"
  /\ aborted = FALSE
  /\ bytes_put = 0
  /\ pexe_size_ = 0
  /\ pexe_bytes_compiled_ = 0
  /\ expected_pexe_size_ = -1
  /\ nexe = << >>
  /\ read_pos = 0
  /\ notify_log = << >>
  /\ progress_events = << >>
  /\ ops = [o \in OpNames |-> 0]
  /\ marks = {}
  /\ request = 1
  /\ first_nexe = << >>
  /\ other_result = << >>
  /\ uma_interface = FALSE
  /\ histograms = << >>
  /\ error_pp = << >>

\* One request, of any kind, on a cache that is empty or holds the entry of
\* an earlier request; no other coordinator.
Init ==
  /\ Constructed
  /\ router = RouterConstructed(FALSE)
  /\ store = StoreConstructed(FALSE)
  /\ use_new_cache_ \in BOOLEAN
  /\ off_the_record_ \in BOOLEAN
  /\ response_validators \in { NoString, Validators }
  /\ response_no_store \in BOOLEAN
  /\ download_total \in DownloadTotals
  /\ cache_dir \in { {}, { << Validators \o Url, CommittedEntry >> } }
  /\ other = "absent"
  /\ uma_available = FALSE

\* No translation is asked for: the coordinator stays as constructed.
NoRequest ==
  /\ Constructed
  /\ use_new_cache_ = FALSE
  /\ off_the_record_ = FALSE
  /\ response_validators = NoString
  /\ response_no_store = FALSE
  /\ download_total = -1
  /\ cache_dir = {}
  /\ other = "absent"
  /\ uma_available = FALSE

(***************************************************************************)
(* The router alone: listeners come and go on the UI thread, and the       *)
(* provider answers the queries it was sent.                               *)
(***************************************************************************)
AddEventListener_call ==
  /\ router.calls < MaxRouterCalls
  /\ \E event_name \in EventNames :
       /\ router.watching_event_set_[event_name] < MaxListeners
       /\ router' = AddEventListener(router, event_name)
  /\ UNCHANGED << coordinator_vars, store >>

RemoveEventListener_call ==
  /\ router.calls < MaxRouterCalls
  /\ \E event_name \in EventNames :
       router' = RemoveEventListener(router, event_name)
  /\ UNCHANGED << coordinator_vars, store >>

StartWatchingStorages_cb ==
  /\ router.pending["StartWatchingStorages"] > 0
  /\ \E info \in SUBSET StorageIds : \E success \in BOOLEAN :
       router' = StartWatchingStorages(
                   [router EXCEPT !.pending["StartWatchingStorages"] = @ - 1],
                   info, success)
  /\ UNCHANGED << coordinator_vars, store >>

StopWatchingStorages_cb ==
  /\ router.pending["StopWatchingStorages"] > 0
  /\ \E info \in SUBSET StorageIds : \E success \in BOOLEAN :
       router' = StopWatchingStorages(
                   [router EXCEPT !.pending["StopWatchingStorages"] = @ - 1],
                   info, success)
  /\ UNCHANGED << coordinator_vars, store >>

InitRouter ==
  /\ NoRequest
  /\ router \in { RouterConstructed(use_ash) : use_ash \in BOOLEAN }
  /\ store = StoreConstructed(FALSE)

NextRouter ==
  \/ AddEventListener_call
  \/ RemoveEventListener_call
  \/ StartWatchingStorages_cb
  \/ StopWatchingStorages_cb

SpecRouter == InitRouter /\ [][NextRouter]_vars

(***************************************************************************)
(* The store alone: its callers add entries and drive sync, the database   *)
(* answers.  A callback handed to the database may still arrive after      *)
(* database_ was reset; nothing happens after a NULL database_ was used or *)
(* a DCHECK stopped the process.                                           *)
(***************************************************************************)
StoreRuns == ~store.null_deref /\ ~store.dcheck_failed
TakenFromDatabase(cb) == [store EXCEPT !.pending[cb] = @ - 1]

AddEntry_call ==
  /\ StoreRuns
  /\ store.calls < MaxStoreCalls
  /\ \E entry \in EntryIds : \E change_ok \in BOOLEAN : \E sync_ok \in BOOLEAN :
       store' = AddEntry(store, entry, change_ok, sync_ok)
  /\ UNCHANGED << coordinator_vars, router >>

\* Sync starts once: DCHECK(!sync_processor_).
MergeDataAndStartSyncing_call ==
  /\ StoreRuns
  /\ store.calls < MaxStoreCalls
  /\ ~store.sync_processor_
  /\ \E initial_sync_data \in SUBSET EntryIds :
     \E change_ok \in BOOLEAN : \E sync_ok \in BOOLEAN :
       store' = MergeDataAndStartSyncing(store, initial_sync_data,
                                         change_ok, sync_ok)
  /\ UNCHANGED << coordinator_vars, router >>

\* Sync sends changes only while it is running.
ProcessSyncChanges_call ==
  /\ StoreRuns
  /\ store.calls < MaxStoreCalls
  /\ store.sync_processor_
  /\ \E change_list \in SUBSET EntryIds : \E change_ok \in BOOLEAN :
       store' = ProcessSyncChanges(store, change_list, change_ok)
  /\ UNCHANGED << coordinator_vars, router >>

OnDatabaseInit_cb ==
  /\ StoreRuns
  /\ store.pending["OnDatabaseInit"] > 0
  /\ \E success \in BOOLEAN :
       store' = OnDatabaseInit(TakenFromDatabase("OnDatabaseInit"), success)
  /\ UNCHANGED << coordinator_vars, router >>

OnDatabaseLoad_cb ==
  /\ StoreRuns
  /\ store.pending["OnDatabaseLoad"] > 0
  /\ \E success \in BOOLEAN : \E entries \in SUBSET EntryIds :
     \E change_ok \in BOOLEAN :
       store' = OnDatabaseLoad(TakenFromDatabase("OnDatabaseLoad"), success,
                               entries, change_ok)
  /\ UNCHANGED << coordinator_vars, router >>

OnDatabaseSave_cb ==
  /\ StoreRuns
  /\ store.pending["OnDatabaseSave"] > 0
  /\ \E success \in BOOLEAN :
       store' = OnDatabaseSave(TakenFromDatabase("OnDatabaseSave"), success)
  /\ UNCHANGED << coordinator_vars, router >>

InitStore ==
  /\ NoRequest
  /\ router = RouterConstructed(FALSE)
  /\ store \in { StoreConstructed(dcheck_on) : dcheck_on \in BOOLEAN }

NextStore ==
  \/ AddEntry_call
  \/ MergeDataAndStartSyncing_call
  \/ ProcessSyncChanges_call
  \/ OnDatabaseInit_cb
  \/ OnDatabaseLoad_cb
  \/ OnDatabaseSave_cb

SpecStore == InitStore /\ [][NextStore]_vars

(***************************************************************************)
(* What the environment may answer.                                        *)
(***************************************************************************)
Pending(h) == { cb \in callbacks : cb.h = h }
\* The state in which callback cb is being run: it is no longer pending.
Taken(cb) == [State EXCEPT !.callbacks = @ \ {cb}]

FileSystemOpenReturns == { PP_OK_COMPLETIONPENDING, PP_ERROR_INPROGRESS,
                           PP_ERROR_FAILED }
FileSystemOpenResults == { PP_OK, PP_ERROR_NOACCESS, PP_ERROR_NOQUOTA,
                           PP_ERROR_NOSPACE, PP_ERROR_FAILED }
\* FileRef::MakeDirectory: nothing can be made in a file system that did not
\* open.
MakeDirectoryResults(open) ==
  IF open THEN { PP_OK, PP_ERROR_FILEEXISTS, PP_ERROR_NOACCESS, PP_ERROR_FAILED }
          ELSE { PP_ERROR_FAILED }
TempFileOpenResults == { PP_OK, PP_ERROR_FAILED }
StreamOpenResults == { PP_OK, PP_ERROR_NOACCESS, PP_ERROR_FAILED }
StreamErrors == { PP_ERROR_ABORTED, PP_ERROR_NOACCESS, PP_ERROR_FAILED }
GetNexeFdReturns == { PP_OK_COMPLETIONPENDING, PP_ERROR_FAILED }
OpenWriteResults == { PP_OK, PP_ERROR_NOACCESS, PP_ERROR_NOQUOTA,
                      PP_ERROR_NOSPACE, PP_ERROR_NOTAFILE, PP_ERROR_FAILED }
WriteErrors == { PP_ERROR_NOQUOTA, PP_ERROR_NOSPACE, PP_ERROR_FAILED }
DeleteResults == { PP_OK, PP_ERROR_FAILED }
\* LocalTempFile::OpenRead: a file that is there opens, or is refused.
OpenReadResults(there) ==
  IF there THEN { PP_OK, PP_ERROR_NOACCESS, PP_ERROR_FAILED }
           ELSE { PP_ERROR_FILENOTFOUND }
\* LocalTempFile::Rename(key): a name that is taken is either replaced or
\* refused with PP_ERROR_FILEEXISTS.
RenameResults(taken) ==
  { PP_OK, PP_ERROR_NOACCESS, PP_ERROR_FAILED }
    \cup (IF taken THEN { PP_ERROR_FILEEXISTS } ELSE {})

\* The file a completed Rename leaves under the key; a Rename that is
\* refused leaves the directory as it is.  The outcome is marked.
Renamed(s, r) ==
  IF r = PP_OK /\ HasFile(s.cache_dir, CachedName(s))
    THEN [s EXCEPT !.cache_dir =
            PutFile(RemoveFile(@, CachedName(s)), GetCacheKey(s),
                    FileContent(@, CachedName(s))),
                   !.marks = @ \cup { "rename_ok" }]
  ELSE IF r = PP_ERROR_FILEEXISTS
    THEN [s EXCEPT !.marks = @ \cup { "rename_collided" }]
  ELSE IF r = PP_ERROR_NOACCESS
    THEN [s EXCEPT !.marks = @ \cup { "rename_noaccess" }]
  ELSE IF r # PP_OK
    THEN [s EXCEPT !.marks = @ \cup { "rename_failed" }]
    ELSE s

\* The scratch file after a Write of buffer `data` that reports r.
Written(s, cb, r, data) ==
  IF r > 0 /\ HasFile(s.cache_dir, CachedName(s))
    THEN [s EXCEPT !.cache_dir =
            PutFile(@, CachedName(s),
                    WriteAt(FileContent(@, CachedName(s)), cb.o, data, r))]
    ELSE s

\* What a Write finds in the buffer it was given: the bytes read into it,
\* or, the buffer being a local of a handler that has returned, anything.
BufferSeen(s, n, intact) ==
  IF intact THEN BufferOf(s, n) ELSE [i \in 1..n |-> Garbage]

WriteMarks(s, cb, r, intact) ==
  [s EXCEPT !.marks = @ \cup (IF r = 0 THEN {"zero_write"} ELSE {})
                        \cup (IF r > 0 /\ r < cb.n THEN {"short_write"} ELSE {})
                        \cup (IF r > 0 /\ ~intact THEN {"buffer_clobbered"}
                              ELSE {})]

(***************************************************************************)
(* The actions: the call of BitcodeToNative, then one completion callback  *)
(* at a time on the plugin's main thread.                                  *)
(***************************************************************************)
BitcodeToNative_call ==
  /\ ~started
  /\ \E info_ok \in BOOLEAN : Becomes(BitcodeToNative(State, info_ok))

ResourceInfoWasRead_cb ==
  \E cb \in Pending("ResourceInfoWasRead") : \E load_ok \in BOOLEAN :
    Becomes(ResourceInfoWasRead(Taken(cb), cb.n, load_ok))

ResourcesDidLoad_cb ==
  \E cb \in Pending("ResourcesDidLoad") :
  \E open_error \in FileSystemOpenReturns : \E stream_ok \in BOOLEAN :
    Becomes(ResourcesDidLoad(Taken(cb), cb.n, open_error, stream_ok))

FileSystemDidOpen_cb ==
  \E cb \in Pending("FileSystemDidOpen") : \E r \in FileSystemOpenResults :
    Becomes(FileSystemDidOpen(
              [Taken(cb) EXCEPT !.file_system_ =
                 IF r = PP_OK THEN "open" ELSE "closed"], r))

DirectoryWasCreated_cb ==
  \E cb \in Pending("DirectoryWasCreated") :
  \E r \in MakeDirectoryResults(file_system_ = "open") :
  \E stream_ok \in BOOLEAN :
    Becomes(DirectoryWasCreated(Taken(cb), r, stream_ok))

ObjectFileDidOpen_cb ==
  \E cb \in Pending("ObjectFileDidOpen") : \E r \in TempFileOpenResults :
    Becomes(ObjectFileDidOpen(
              [Taken(cb) EXCEPT !.obj_file_ =
                 IF r = PP_OK THEN "open" ELSE @], r))

RunTranslate_cb ==
  \E cb \in Pending("RunTranslate") : \E r \in TempFileOpenResults :
    Becomes(RunTranslate(
              [Taken(cb) EXCEPT !.temp_nexe_file_ =
                 IF r = PP_OK THEN "open" ELSE @], r))

BitcodeStreamDidOpen_cb ==
  \E cb \in Pending("BitcodeStreamDidOpen") : \E r \in StreamOpenResults :
  \E nexe_fd_err \in GetNexeFdReturns :
    Becomes(BitcodeStreamDidOpen(
              [Taken(cb) EXCEPT !.streaming_downloader_ =
                 IF r = PP_OK THEN "open" ELSE "finished"], r, nexe_fd_err))

NexeFdDidOpen_cb ==
  \E cb \in Pending("NexeFdDidOpen") : \E r \in TempFileOpenResults :
  \E fd_ok \in BOOLEAN :
    Becomes(NexeFdDidOpen(Taken(cb), r, fd_ok))

CachedFileDidOpen_cb ==
  \E cb \in Pending("CachedFileDidOpen") :
  \E r \in OpenReadResults(HasFile(cache_dir, cache_validators)) :
    Becomes(CachedFileDidOpen(
              [Taken(cb) EXCEPT !.cached_read_open = (r = PP_OK)], r))

\* The downloader hands over the next chunk (see GetCallback): only once
\* FinishStreaming was called, and in the order of the stream.
BitcodeStreamGotData_cb ==
  /\ streaming_downloader_ = "streaming"
  /\ \E n \in 1..(PexeSize - bytes_streamed) :
       Becomes(BitcodeStreamGotData(
                 [State EXCEPT !.bytes_streamed = @ + n], n))

\* The stream ends: with PP_OK after the last chunk, with an error at any
\* time.
BitcodeStreamDidFinish_cb ==
  \E cb \in Pending("BitcodeStreamDidFinish") :
  \E r \in StreamErrors \cup
           (IF bytes_streamed = PexeSize THEN { PP_OK } ELSE {}) :
    Becomes(BitcodeStreamDidFinish(
              [Taken(cb) EXCEPT !.streaming_downloader_ = "finished"], r))

\* The worker reports bytes it has handed to the compiler (see
\* GetCompileProgressCallback), never more than it was given.
BitcodeGotCompiled_cb ==
  /\ translate_thread_ = "running"
  /\ \E n \in 1..(bytes_put - pexe_bytes_compiled_) :
       Becomes(BitcodeGotCompiled(State, PP_OK, n))

\* The worker reports that it is done: with PP_OK only when it was given the
\* whole program, and the nexe temp file then holds what it linked.
TranslateFinished_cb ==
  \E cb \in Pending("TranslateFinished") :
    \/ \E stat_ret \in StatResults :
         Becomes(TranslateFinished(
                   [Taken(cb) EXCEPT !.translate_thread_ = "reported",
                                     !.marks = @ \cup { "worker_failed" }],
                   PP_ERROR_FAILED, stat_ret))
    \/ /\ bytes_put = PexeSize
       /\ temp_nexe_file_ = "open"
       /\ \E len \in 0..MaxNexeLen : \E stat_ret \in StatResults :
            Becomes(TranslateFinished(
                      [Taken(cb) EXCEPT !.translate_thread_ = "reported",
                                        !.nexe = NexeOfLen(len),
                                        !.read_pos = len], PP_OK, stat_ret))

CachedNexeOpenedForWrite_cb ==
  \E cb \in Pending("CachedNexeOpenedForWrite") : \E r \in OpenWriteResults :
  \E read_ok \in BOOLEAN :
    Becomes(CachedNexeOpenedForWrite(
              [Taken(cb) EXCEPT !.cache_dir =
                 IF r = PP_OK THEN PutFile(@, CachedName(State), << >>)
                              ELSE @],
              r, read_ok))

DidCopyNexeToCachePartial_cb ==
  \E cb \in Pending("DidCopyNexeToCachePartial") :
  \E r \in (0..cb.n) \cup WriteErrors :
  \E intact \in BOOLEAN : \E seek_ok \in BOOLEAN : \E read_ok \in BOOLEAN :
    Becomes(DidCopyNexeToCachePartial(
              WriteMarks(Written(Taken(cb), cb, r,
                                 BufferSeen(State, cb.n, intact)),
                         cb, r, intact),
              r, cb.n, cb.o, seek_ok, read_ok))

NexeFileWasRenamed_cb ==
  \E cb \in Pending("NexeFileWasRenamed") :
  \E r \in RenameResults(HasFile(cache_dir, cache_validators)) :
    Becomes(NexeFileWasRenamed(Renamed(Taken(cb), r), r))

CorruptCacheFileWasDeleted_cb ==
  \E cb \in Pending("CorruptCacheFileWasDeleted") : \E r \in DeleteResults :
    Becomes(CorruptCacheFileWasDeleted(
              [Taken(cb) EXCEPT !.cache_dir =
                 IF r = PP_OK THEN RemoveFile(@, CachedName(State)) ELSE @],
              r, cb.n))

\* cb.n = 0: the OpenRead of the cache file; cb.n = 1: the Open for reading
\* of the nexe temp file the browser's cache handed over.
NexeReadDidOpen_cb ==
  \E cb \in Pending("NexeReadDidOpen") :
    \/ /\ cb.n = 0
       /\ \E r \in OpenReadResults(HasFile(cache_dir, cache_validators)) :
            Becomes(NexeReadDidOpen(
                      [Taken(cb) EXCEPT !.cached_read_open = (r = PP_OK)], r))
    \/ /\ cb.n = 1
       /\ \E r \in TempFileOpenResults :
            Becomes(NexeReadDidOpen(
                      [Taken(cb) EXCEPT
                         !.temp_nexe_file_ = IF r = PP_OK THEN "open" ELSE @,
                         !.read_pos = 0], r))

\* The plugin deletes the coordinator, at any time.
Destructor_call ==
  /\ started
  /\ ~destroyed
  /\ Becomes(Destructor(State))

Next ==
  \/ BitcodeToNative_call
  \/ ResourceInfoWasRead_cb
  \/ ResourcesDidLoad_cb
  \/ FileSystemDidOpen_cb
  \/ DirectoryWasCreated_cb
  \/ ObjectFileDidOpen_cb
  \/ RunTranslate_cb
  \/ BitcodeStreamDidOpen_cb
  \/ NexeFdDidOpen_cb
  \/ CachedFileDidOpen_cb
  \/ BitcodeStreamGotData_cb
  \/ BitcodeStreamDidFinish_cb
  \/ BitcodeGotCompiled_cb
  \/ TranslateFinished_cb
  \/ CachedNexeOpenedForWrite_cb
  \/ DidCopyNexeToCachePartial_cb
  \/ NexeFileWasRenamed_cb
  \/ CorruptCacheFileWasDeleted_cb
  \/ NexeReadDidOpen_cb
  \/ Destructor_call

\* The same requests in a browser that may or may not offer the UMA
\* interface, for a download whose total is known from the start.
InitTelemetry ==
  /\ Constructed
  /\ router = RouterConstructed(FALSE)
  /\ store = StoreConstructed(FALSE)
  /\ use_new_cache_ \in BOOLEAN
  /\ off_the_record_ \in BOOLEAN
  /\ response_validators \in { NoString, Validators }
  /\ response_no_store \in BOOLEAN
  /\ download_total = PexeSize
  /\ cache_dir \in { {}, { << Validators \o Url, CommittedEntry >> } }
  /\ other = "absent"
  /\ uma_available \in BOOLEAN

SpecTelemetry == InitTelemetry /\ [][Next]_vars

Spec == Init /\ [][Next]_vars

(***************************************************************************)
(* A second coordinator, in another instance of the plugin, translating    *)
(* the same program under the same key at the same time.  It runs the same *)
(* code; of its steps only those on the shared cache directory are kept.   *)
(***************************************************************************)
\* The name of its scratch LocalTempFile, and what its worker writes.
OtherScratchName == << "scratch2" >>
OtherNexe == << 6, 7 >>

\* Its CachedFileDidOpen: a hit serves the entry under the key.
Other_CachedFileDidOpen ==
  /\ other = "started"
  /\ IF HasFile(cache_dir, TheKey)
       THEN Becomes([State EXCEPT
                       !.other = "done",
                       !.other_result = FileContent(cache_dir, TheKey)])
       ELSE Becomes([State EXCEPT !.other = "missed"])

\* Its TranslateFinished and CachedNexeOpenedForWrite: the scratch file is
\* there, empty.
Other_CachedNexeOpenedForWrite ==
  /\ other = "missed"
  /\ Becomes([State EXCEPT
                !.other = "writing",
                !.cache_dir = PutFile(@, OtherScratchName, << >>)])

\* Its DidCopyNexeToCachePartial: some more bytes are in its scratch file,
\* or the copy is over and the Rename is issued.
Other_DidCopyNexeToCachePartial ==
  /\ other = "writing"
  /\ LET done == Len(FileContent(cache_dir, OtherScratchName)) IN
     IF done = Len(OtherNexe)
       THEN Becomes([State EXCEPT !.other = "renaming"])
       ELSE \E n \in 1..Min(kCopyBufSize, Len(OtherNexe) - done) :
              Becomes([State EXCEPT
                         !.cache_dir =
                            PutFile(@, OtherScratchName,
                                    WriteAt(FileContent(@, OtherScratchName),
                                            done,
                                            SubSeq(OtherNexe, done + 1,
                                                   done + n),
                                            n))])

\* Its NexeFileWasRenamed: the Rename replaced what was under the key, or
\* was refused because the name was taken; either way it goes on.
Other_NexeFileWasRenamed ==
  /\ other = "renaming"
  /\ \E r \in RenameResults(HasFile(cache_dir, TheKey))
                \cap { PP_OK, PP_ERROR_FILEEXISTS } :
       Becomes([State EXCEPT
                  !.other = "opening",
                  !.cache_dir =
                     IF r = PP_OK
                       THEN PutFile(RemoveFile(@, OtherScratchName), TheKey,
                                    FileContent(@, OtherScratchName))
                       ELSE @])

\* Its NexeReadDidOpen: its caller gets the file under the key.
Other_NexeReadDidOpen ==
  /\ other = "opening"
  /\ HasFile(cache_dir, TheKey)
  /\ Becomes([State EXCEPT
                !.other = "done",
                !.other_result = FileContent(cache_dir, TheKey)])

\* Two requests for the same key at once, both cacheable, on an empty cache
\* of the local temporary file system.
InitRace ==
  /\ Constructed
  /\ router = RouterConstructed(FALSE)
  /\ store = StoreConstructed(FALSE)
  /\ use_new_cache_ = FALSE
  /\ off_the_record_ = FALSE
  /\ response_validators = Validators
  /\ response_no_store = FALSE
  /\ download_total = -1
  /\ cache_dir = {}
  /\ other = "started"
  /\ uma_available = FALSE

\* The steps of this coordinator on the path of the local cache, and those
\* of the other one.  The progress reports of the worker (BitcodeGotCompiled)
\* touch nothing but the progress counters and are left out.
NextRace ==
  \/ BitcodeToNative_call
  \/ ResourceInfoWasRead_cb
  \/ ResourcesDidLoad_cb
  \/ FileSystemDidOpen_cb
  \/ DirectoryWasCreated_cb
  \/ ObjectFileDidOpen_cb
  \/ RunTranslate_cb
  \/ BitcodeStreamDidOpen_cb
  \/ CachedFileDidOpen_cb
  \/ BitcodeStreamGotData_cb
  \/ BitcodeStreamDidFinish_cb
  \/ TranslateFinished_cb
  \/ CachedNexeOpenedForWrite_cb
  \/ DidCopyNexeToCachePartial_cb
  \/ NexeFileWasRenamed_cb
  \/ CorruptCacheFileWasDeleted_cb
  \/ NexeReadDidOpen_cb
  \/ Other_CachedFileDidOpen
  \/ Other_CachedNexeOpenedForWrite
  \/ Other_DidCopyNexeToCachePartial
  \/ Other_NexeFileWasRenamed
  \/ Other_NexeReadDidOpen

SpecRace == InitRace /\ [][NextRace]_vars

(***************************************************************************)
(* A later request for the same program: the plugin makes a new            *)
(* coordinator once the first has committed its translation and told its   *)
(* caller.  The cache directory stays; what the first worker wrote is      *)
(* remembered in first_nexe, and so is how its copy went.                  *)
(***************************************************************************)
NewRequest(s) ==
  [s EXCEPT
     !.started = FALSE, !.destroyed = FALSE, !.callbacks = {},
     !.translate_finish_error_ = PP_OK, !.error_already_reported_ = FALSE,
     !.error_code = "ERROR_UNKNOWN", !.error_pp = << >>,
     !.cache_validators = NoString,
     !.is_cache_hit_ = FALSE, !.file_system_ = "closed",
     !.cached_nexe_file_ = "null", !.cached_read_open = FALSE,
     !.obj_file_ = "null", !.temp_nexe_file_ = "null",
     !.translated_fd_ = NoFd, !.streaming_downloader_ = "null",
     !.bytes_streamed = 0, !.translate_thread_ = "null", !.aborted = FALSE,
     !.bytes_put = 0, !.pexe_size_ = 0, !.pexe_bytes_compiled_ = 0,
     !.expected_pexe_size_ = -1, !.nexe = << >>, !.read_pos = 0,
     !.notify_log = << >>, !.progress_events = << >>,
     !.ops = [o \in OpNames |-> 0],
     !.marks = @ \cap { "short_write", "zero_write", "buffer_clobbered" },
     !.request = 2, !.first_nexe = s.nexe]

NewRequest_call ==
  /\ request = 1
  /\ "rename_ok" \in marks
  /\ notify_log = << PP_OK >>
  /\ callbacks = {}
  /\ Becomes(NewRequest(State))

\* A cacheable request on an empty cache of the local temporary file system.
InitRoundTrip ==
  /\ Constructed
  /\ router = RouterConstructed(FALSE)
  /\ store = StoreConstructed(FALSE)
  /\ use_new_cache_ = FALSE
  /\ off_the_record_ = FALSE
  /\ response_validators = Validators
  /\ response_no_store = FALSE
  /\ download_total = -1
  /\ cache_dir = {}
  /\ other = "absent"
  /\ uma_available = FALSE

\* The steps of a coordinator on the path of the local cache (without the
\* progress reports of the worker), and the next request.
NextRoundTrip ==
  \/ BitcodeToNative_call
  \/ ResourceInfoWasRead_cb
  \/ ResourcesDidLoad_cb
  \/ FileSystemDidOpen_cb
  \/ DirectoryWasCreated_cb
  \/ ObjectFileDidOpen_cb
  \/ RunTranslate_cb
  \/ BitcodeStreamDidOpen_cb
  \/ CachedFileDidOpen_cb
  \/ BitcodeStreamGotData_cb
  \/ BitcodeStreamDidFinish_cb
  \/ TranslateFinished_cb
  \/ CachedNexeOpenedForWrite_cb
  \/ DidCopyNexeToCachePartial_cb
  \/ NexeFileWasRenamed_cb
  \/ CorruptCacheFileWasDeleted_cb
  \/ NexeReadDidOpen_cb
  \/ NewRequest_call

SpecRoundTrip == InitRoundTrip /\ [][NextRoundTrip]_vars

(***************************************************************************)
(* Properties.                                                             *)
(***************************************************************************)
Notified(r) == \E i \in 1..Len(notify_log) : notify_log[i] = r
FailureCount ==
  Cardinality({ i \in 1..Len(notify_log) : notify_log[i] = PP_ERROR_FAILED })

\* C1: translate_notify_callback_ is run at most once in the whole request,
\* whatever the order in which the asynchronous completions arrive.
C1_NotifiedAtMostOnce == Len(notify_log) <= 1

\* C2: a request that is not torn down is notified in the end: when nothing
\* is left to complete (no callback pending, nothing left for the downloader
\* or the worker to deliver), the completion callback has been run.
C2_NotifiedWhenQuiescent ==
  (started /\ ~destroyed /\ ~ENABLED (Next /\ ~Destructor_call))
    => Len(notify_log) >= 1

\* C3: however often ExitWithError is entered, the callback is run with
\* PP_ERROR_FAILED at most once, and error_already_reported_ stays set from
\* the first entry on.
C3_FailureLatched ==
  /\ FailureCount <= 1
  /\ ops["ReportLoadError"] > 0 => error_already_reported_
  /\ error_already_reported_ => FailureCount = 1

C3_Witness == ops["ReportLoadError"] >= 2 /\ FailureCount = 1

CacheOps == { "FileSystemOpen", "MakeDirectory", "ProbeOpenRead", "GetNexeFd",
              "ScratchOpenWrite", "Write", "Rename", "Delete", "FinishRename",
              "CacheOpenRead" }
\* Those that can only be issued once the response headers are known.
CacheOpsAfterHeaders == CacheOps \ { "FileSystemOpen", "MakeDirectory" }

NoCacheOp(S) == \A o \in S : ops[o] = 0

\* The response forbids caching: no validators, or Cache-Control: no-store.
HeadersForbidCaching ==
  /\ ~off_the_record_
  /\ "headers_parsed" \in marks
  /\ (response_no_store \/ response_validators = NoString)

\* C5: on a cache hit the caller is told of the success and neither the
\* resource loader nor the worker is invoked for the request.
C5_HitInvokesNeitherLoaderNorWorker ==
  ("cache_hit" \in marks /\ notify_log # << >>) =>
    /\ notify_log = << PP_OK >>
    /\ ops["ReadResourceInfo"] = 0
    /\ ops["StartLoad"] = 0
    /\ ops["RunTranslate"] = 0

\* The worker is started after the caller was told of the hit.
C5_WorkerRunsAfterHit ==
  /\ "cache_hit" \in marks
  /\ notify_log = << PP_OK >>
  /\ translate_thread_ = "running"
  /\ ops["RunTranslate"] = 1

\* C6: an off-the-record request opens the bitcode stream as soon as the
\* resources are loaded and never issues an operation on the cache.
C6_OffTheRecordNeverCaches ==
  off_the_record_ =>
    /\ NoCacheOp(CacheOps)
    /\ cached_nexe_file_ = "null"
    /\ "resources_loaded" \in marks => ops["OpenStream"] = 1

C6_Witness ==
  /\ off_the_record_
  /\ "translate_ok" \in marks
  /\ notify_log = << PP_OK >>

\* C7 as stated: a request whose response has no validators, or says
\* no-store, issues no operation on the cache at any point.
C7_NoValidatorsNeverTouchesCache ==
  HeadersForbidCaching => NoCacheOp(CacheOps)

\* C7 as amended: such a request issues no probe, no scratch open, no write,
\* no rename and no delete; but without use_new_cache_ the cache file system
\* was opened and the directory created, once each, before the stream was
\* opened and the headers known.
C7_NoValidatorsNoProbeNoCommit ==
  HeadersForbidCaching =>
    /\ NoCacheOp(CacheOpsAfterHeaders)
    /\ cached_nexe_file_ = "null"
    /\ cache_validators = NoString
    /\ use_new_cache_ => NoCacheOp(CacheOps)
    /\ ~use_new_cache_ => ops["FileSystemOpen"] = 1 /\ ops["MakeDirectory"] = 1

C7_Witness ==
  /\ HeadersForbidCaching
  /\ response_no_store /\ response_validators # NoString
  /\ "translate_ok" \in marks
  /\ notify_log = << PP_OK >>

\* Caching is off for the request: off the record, or forbidden by the
\* response.
CachingDisabled == off_the_record_ \/ HeadersForbidCaching

\* The whole bitcode program was downloaded and the stream ended with PP_OK.
DownloadSucceeded ==
  /\ streaming_downloader_ = "finished"
  /\ bytes_streamed = PexeSize
  /\ translate_finish_error_ = PP_OK

RenameInFlight == Pending("NexeFileWasRenamed") # {}
ScratchIsTheNexe ==
  /\ HasFile(cache_dir, ScratchName)
  /\ FileContent(cache_dir, ScratchName) = nexe

\* C9: on a miss whose worker and cache operations all succeed exactly one
\* Rename is issued, and when it is issued the scratch file is byte for byte
\* the worker's nexe (even granting that every Write found its buffer
\* intact).
C9_RenamedScratchIsTheNexe ==
  (ops["Rename"] > 0 /\ "buffer_clobbered" \notin marks) =>
    /\ ops["Rename"] = 1
    /\ RenameInFlight => ScratchIsTheNexe

\* C10: whenever a write reported fewer bytes than requested (0 included),
\* the copy that ends in success has made the scratch file identical to the
\* source (granting that every Write found its buffer intact).
C10_ShortWritesAreRecovered ==
  (/\ RenameInFlight
   /\ "buffer_clobbered" \notin marks
   /\ ("short_write" \in marks \/ "zero_write" \in marks))
    => ScratchIsTheNexe

\* C11: the file under the cache key is an entry committed earlier or was put
\* there by the Rename that follows a complete copy: it never holds part of
\* a nexe, and the scratch file that takes the bytes of a copy in progress
\* has another name (granting that every Write found its buffer intact).
C11_OnlyCompleteEntriesUnderKey ==
  /\ ScratchName # TheKey
  /\ (HasFile(cache_dir, TheKey) /\ "buffer_clobbered" \notin marks) =>
       \/ FileContent(cache_dir, TheKey) = CommittedEntry
       \/ /\ "copy_ok" \in marks
          /\ ops["Rename"] = 1
          /\ FileContent(cache_dir, TheKey) = nexe

\* The bytes each of the two writers can put into a file.
OurBytes == (1..MaxNexeLen) \cup { Garbage }
OtherBytes == { OtherNexe[i] : i \in 1..Len(OtherNexe) }
BytesOf(content) == { content[i] : i \in 1..Len(content) }
FromOneWriter(content) ==
  BytesOf(content) \subseteq OurBytes \/ BytesOf(content) \subseteq OtherBytes

\* C12: of two coordinators racing for one key, each writes only to its own
\* scratch file, the file under the key never holds bytes of both, and what
\* each gives its caller is its own translation or the entry the other one
\* committed.
C12_NoCorruptedMerge ==
  /\ \A f \in cache_dir :
       /\ f[1] = ScratchName => BytesOf(f[2]) \subseteq OurBytes
       /\ f[1] = OtherScratchName => BytesOf(f[2]) \subseteq OtherBytes
       /\ f[1] = TheKey => FromOneWriter(f[2])
  /\ Notified(PP_OK) =>
       \/ translated_fd_.data = OtherNexe
       \/ BytesOf(translated_fd_.data) \subseteq OurBytes
  /\ other = "done" =>
       \/ other_result = OtherNexe
       \/ BytesOf(other_result) \subseteq OurBytes

\* Both have copied and renamed, and this coordinator serves the entry of
\* the other one.
C12_Witness ==
  /\ "copy_ok" \in marks
  /\ ops["Rename"] = 1
  /\ other = "done"
  /\ other_result = OtherNexe
  /\ notify_log = << PP_OK >>
  /\ translated_fd_.data = OtherNexe
  /\ Len(nexe) = MaxNexeLen

\* C13: a request that finds the entry an earlier request of the same key
\* committed gives its caller a handle on the bytes the earlier worker
\* wrote, at offset 0 (granting that every Write of the earlier copy found
\* its buffer intact).
C13_HitReturnsWhatWasCommitted ==
  (/\ request = 2
   /\ "cache_hit" \in marks
   /\ notify_log # << >>
   /\ "buffer_clobbered" \notin marks) =>
    /\ notify_log[1] = PP_OK
    /\ translated_fd_.file = "cached_nexe_file_"
    /\ translated_fd_.data = first_nexe
    /\ translated_fd_.pos = 0

\* C14: the destructor aborts the worker's subprocesses when there is a
\* worker object; from then on no callback of the coordinator runs, nothing
\* more is issued, and the caller is not notified again.
C14_TeardownIsFinal ==
  [][ /\ (~destroyed /\ destroyed') =>
           /\ callbacks' = {}
           /\ notify_log' = notify_log
           /\ translate_thread_ # "null" =>
                /\ aborted'
                /\ ops'["AbortSubprocesses"] = ops["AbortSubprocesses"] + 1
      /\ destroyed =>
           /\ destroyed'
           /\ notify_log' = notify_log
           /\ ops' = ops ]_vars

\* Torn down while the worker was running and callbacks were pending before
\* anything was reported.
C14_Witness ==
  /\ destroyed
  /\ ops["RunTranslate"] = 1
  /\ ops["AbortSubprocesses"] = 1
  /\ translate_finish_error_ = PP_OK
  /\ ops["FinishStreaming"] = 1
  /\ bytes_streamed < PexeSize
  /\ notify_log = << >>

\* ---------------------------------------------------------------------------
\* C15: the bytes-so-far of successive progress events never decreases, and
\* an event marked LENGTH_IS_COMPUTABLE never carries more bytes than its
\* total.
C15_ProgressMonotoneAndBounded ==
  /\ \A i \in 1..Len(progress_events) : \A j \in i..Len(progress_events) :
       progress_events[i].loaded <= progress_events[j].loaded
  /\ \A i \in 1..Len(progress_events) :
       progress_events[i].computable =>
         progress_events[i].loaded <= progress_events[i].total

\* BitcodeGotCompiled reported half of the program, then TranslateFinished
\* reported all of it.
C15_Witness ==
  /\ "translate_ok" \in marks
  /\ Len(progress_events) >= 2
  /\ progress_events[1].computable
  /\ progress_events[1].loaded < progress_events[1].total
  /\ progress_events[Len(progress_events)].loaded = download_total

\* A progress event that says the whole program is done.
IsComplete(e) == e.computable /\ e.loaded = e.total

\* C16: an event with bytes-so-far equal to the known total is emitted only
\* by the step in which TranslateFinished succeeds: BitcodeGotCompiled never
\* emits one, and a TranslateFinished that fails emits none.
C16_CompleteOnlyOnSuccess ==
  [][ \A i \in 1..Len(progress_events') :
        (i > Len(progress_events) /\ IsComplete(progress_events'[i])) =>
          /\ "translate_ok" \notin marks
          /\ "translate_ok" \in marks'
          /\ i = Len(progress_events') ]_vars

\* BitcodeGotCompiled saw every byte compiled with the total known and
\* withheld its event; the only event is the one TranslateFinished appended.
C16_Witness ==
  /\ "translate_ok" \in marks
  /\ download_total = PexeSize
  /\ pexe_bytes_compiled_ = PexeSize
  /\ ops["GetDownloadProgress"] = 1
  /\ Len(progress_events) = 1
  /\ IsComplete(progress_events[1])

\* ---------------------------------------------------------------------------
\* C17: after a success the caller's handle is open for reading at offset 0.
\* Where the coordinator keeps the cache itself (a key and a cache file) the
\* handle is the reopened cache file, otherwise it is the worker's temp file
\* (or the browser's file on a hit in the new cache).
C17_HandleReadableAtStart ==
  Notified(PP_OK) =>
    /\ translated_fd_.pos = 0
    /\ translated_fd_.file =
         IF cached_nexe_file_ # "null" THEN "cached_nexe_file_"
                                       ELSE "temp_nexe_file_"

\* Without a cache file the worker wrote a nexe of full length, which left
\* the temp file's position at its end before TranslateFinished.
C17_Witness ==
  /\ notify_log = << PP_OK >>
  /\ "translate_ok" \in marks
  /\ translated_fd_.file = "temp_nexe_file_"
  /\ Len(translated_fd_.data) = MaxNexeLen
  /\ translated_fd_.pos = 0

\* ---------------------------------------------------------------------------
\* The category that goes with a finish status of the bitcode stream.
FetchErrorCode(pp_error) ==
  IF pp_error = PP_ERROR_ABORTED THEN "ERROR_PNACL_PEXE_FETCH_ABORTED"
  ELSE IF pp_error = PP_ERROR_NOACCESS THEN "ERROR_PNACL_PEXE_FETCH_NOACCESS"
  ELSE "ERROR_PNACL_PEXE_FETCH_OTHER"

\* TranslateFinished reports the stream failure kept in translate_finish_error_.
StreamFailureReported ==
  /\ translate_finish_error_ # PP_OK
  /\ translate_thread_ = "running"
  /\ translate_thread_' = "reported"
  /\ ops'["ReportLoadError"] = ops["ReportLoadError"] + 1

\* C18: when a failure of the bitcode stream is reported, the error code in
\* error_info_ is the category of the stream's finish status: ABORTED,
\* NOACCESS, or OTHER for every other status.
C18_FetchErrorCategory ==
  [][ StreamFailureReported =>
        error_code' = FetchErrorCode(translate_finish_error_) ]_vars

\* The same for every finish status but PP_ERROR_ABORTED.
C18_CategoryUnlessAborted ==
  [][ (StreamFailureReported /\ translate_finish_error_ # PP_ERROR_ABORTED) =>
        error_code' = FetchErrorCode(translate_finish_error_) ]_vars

\* A stream that finished with PP_ERROR_ABORTED was reported as OTHER.
C18_AbortedReportedAsOther ==
  /\ translate_finish_error_ = PP_ERROR_ABORTED
  /\ translate_thread_ = "reported"
  /\ notify_log = << PP_ERROR_FAILED >>
  /\ error_code = "ERROR_PNACL_PEXE_FETCH_OTHER"

\* ---------------------------------------------------------------------------
\* What writes the coordinator's own cache entry.
CacheWriteOps == { "ScratchOpenWrite", "Write", "Rename", "FinishRename" }

\* C19: the cache key is the response's validators followed by the url, and
\* it is set only for a response with validators and without no-store (on
\* the record); probe and commit use that key.  For any other response the
\* key is empty, the request takes the miss branch (the rest of the stream
\* is asked for, nothing is taken for a hit) and nothing is written to the
\* cache.
C19_CacheKeyIsValidatorsAndUrl ==
  /\ cache_validators \in { NoString, response_validators \o Url }
  /\ HasCacheKey(State) =>
       /\ "headers_parsed" \in marks
       /\ ~off_the_record_
       /\ response_validators # NoString
       /\ ~response_no_store
  /\ (ops["ProbeOpenRead"] > 0 \/ ops["GetNexeFd"] > 0 \/ ops["Rename"] > 0) =>
       GetCacheKey(State) = response_validators \o Url
  /\ "rename_ok" \in marks => HasFile(cache_dir, response_validators \o Url)
  /\ HeadersForbidCaching =>
       /\ cache_validators = NoString
       /\ ops["FinishStreaming"] = 1
       /\ "cache_hit" \notin marks
       /\ NoCacheOp(CacheWriteOps)

\* A miss on a cacheable response was committed under validators + url.
C19_Witness ==
  /\ "rename_ok" \in marks
  /\ cache_validators = Validators \o Url
  /\ HasFile(cache_dir, Validators \o Url)
  /\ notify_log = << PP_OK >>

\* ---------------------------------------------------------------------------
\* The asynchronous operations of the pipeline: resource load, directory
\* creation, stream open and finish, file opens, write, rename, delete,
\* worker start.
AsyncOps == { "ReadResourceInfo", "StartLoad", "FileSystemOpen",
              "MakeDirectory", "OpenStream", "FinishStreaming", "GetNexeFd",
              "ProbeOpenRead", "ObjFileOpen", "NexeFileOpen", "NexeReadOpen",
              "RunTranslate", "ScratchOpenWrite", "Write", "Rename", "Delete",
              "CacheOpenRead" }

\* C20: once ExitWithError has reported the failure nothing of the pipeline
\* goes on: the handler that reported it leaves no callback pending, and no
\* later step runs a callback or issues an asynchronous operation.
C20_NothingRunsAfterFailure ==
  [][ /\ error_already_reported_' => callbacks' = {}
      /\ error_already_reported_ =>
           /\ callbacks \subseteq callbacks'
           /\ \A o \in AsyncOps : ops'[o] = ops[o] ]_vars

\* The file system failed to open and the failure was reported; the directory
\* was created all the same and its callback ran, reporting once more.
C20_DirectoryCreatedAfterFailure ==
  /\ file_system_ # "open"
  /\ notify_log = << PP_ERROR_FAILED >>
  /\ ops["MakeDirectory"] = 1
  /\ ops["ReportLoadError"] = 2
  /\ callbacks = {}

\* ---------------------------------------------------------------------------
\* The open of the cache file system completed with an error.
FileSystemFailedToOpen == ops["FileSystemOpen"] = 1 /\ file_system_ = "closed"

\* C21: when the cache file system fails to open, with whatever error, the
\* request fails, the cache directory is not created and the bitcode stream
\* is not opened.
C21_FailedFileSystemStopsRequest ==
  FileSystemFailedToOpen =>
    /\ notify_log = << PP_ERROR_FAILED >>
    /\ ops["MakeDirectory"] = 0
    /\ ops["OpenStream"] = 0

\* What does hold: the request fails and the stream is never opened; the
\* directory is left alone for the three errors that have a branch of their
\* own.
C21_FailsAndNeverStreams ==
  FileSystemFailedToOpen =>
    /\ notify_log = << PP_ERROR_FAILED >>
    /\ ops["OpenStream"] = 0
    /\ error_code \in { "ERROR_PNACL_CACHE_OPEN_NOACCESS",
                        "ERROR_PNACL_CACHE_OPEN_NOQUOTA",
                        "ERROR_PNACL_CACHE_OPEN_NOSPACE" } =>
         ops["MakeDirectory"] = 0

\* The open failed with an error of the last branch and MakeDirectory is
\* pending.
C21_DirectoryCreationPending ==
  /\ FileSystemFailedToOpen
  /\ error_code = "ERROR_PNACL_CACHE_OPEN_OTHER"
  /\ ops["MakeDirectory"] = 1
  /\ Pending("DirectoryWasCreated") # {}

\* ---------------------------------------------------------------------------
\* C22: the worker is launched only after the object temp file and the nexe
\* temp file were both opened for write successfully.
C22_WorkerNeedsBothFiles ==
  ops["RunTranslate"] > 0 => (obj_file_ = "open" /\ temp_nexe_file_ = "open")

\* What does hold: the worker is launched only with the object file open,
\* and at most once.
C22_WorkerNeedsObjectFile ==
  ops["RunTranslate"] > 0 => (obj_file_ = "open" /\ ops["RunTranslate"] = 1)

\* The nexe temp file failed to open and the worker runs.
C22_WorkerRunsWithoutNexeFile ==
  /\ translate_thread_ = "running"
  /\ ops["RunTranslate"] = 1
  /\ ops["NexeFileOpen"] = 1
  /\ obj_file_ = "open"
  /\ temp_nexe_file_ # "open"
  /\ notify_log = << >>

\* ---------------------------------------------------------------------------
\* C23 as stated: the nexe temp file has been opened for write when
\* FinishStreaming is called and when a chunk of bitcode is delivered.
C23_NexeFileOpenBeforeStreaming ==
  [][ (ops'["FinishStreaming"] # ops["FinishStreaming"]
         \/ bytes_streamed' # bytes_streamed) =>
        temp_nexe_file_ = "open" ]_vars

\* C23 as amended: the open of the nexe temp file is not ordered with the
\* stream.  The worker is launched by the completion of that open and by
\* nothing else; chunks are delivered only after FinishStreaming and are
\* handed to the worker object, which exists by then; and when
\* FinishStreaming is called the open of the object file has been issued,
\* unless use_new_cache_ is set and the request has no cache key.
C23_WorkerLaunchedByNexeOpen ==
  [][ /\ ops'["RunTranslate"] # ops["RunTranslate"] =>
           /\ ops["NexeFileOpen"] = 1
           /\ Pending("RunTranslate") # {}
           /\ \A cb \in callbacks' : cb.h # "RunTranslate"
      /\ bytes_put' # bytes_put =>
           /\ ops["FinishStreaming"] = 1
           /\ translate_thread_ # "null"
      /\ ops'["FinishStreaming"] # ops["FinishStreaming"] =>
           /\ translate_thread_' # "null"
           /\ (~use_new_cache_ \/ cache_validators' # NoString) =>
                ops'["ObjFileOpen"] = 1 ]_vars

\* The whole program was streamed and handed to the worker object while the
\* open of the nexe temp file was still in flight.
C23_Witness ==
  /\ bytes_put = PexeSize
  /\ ops["NexeFileOpen"] = 1
  /\ Pending("RunTranslate") # {}
  /\ ops["RunTranslate"] = 0
  /\ temp_nexe_file_ # "open"

\* ---------------------------------------------------------------------------
\* The step is the completion of the cache probe (LocalTempFile::OpenRead of
\* the key): its callback is no longer pending, and it was not cancelled.
ProbeAnswered ==
  /\ Pending("CachedFileDidOpen") # {}
  /\ \A cb \in callbacks' : cb.h # "CachedFileDidOpen"
  /\ ~destroyed'
  /\ ops'["ReportLoadError"] = ops["ReportLoadError"]

\* The hit branch: the probe opened the file; the downloader is dropped,
\* FinishStreaming is not called, the caller gets the cached file.
TookHitBranch ==
  /\ "cache_hit" \in marks'
  /\ streaming_downloader_' = "null"
  /\ ops'["FinishStreaming"] = 0
  /\ notify_log' = Append(notify_log, PP_OK)
  /\ translated_fd_' = Fd("cached_nexe_file_",
                          FileContent(cache_dir, cache_validators), 0)

\* The miss branch: the probe did not open the file; FinishStreaming is
\* called, for the first time, and the caller is not notified.
TookMissBranch ==
  /\ "cache_hit" \notin marks'
  /\ ~cached_read_open'
  /\ streaming_downloader_' # "null"
  /\ ops["FinishStreaming"] = 0
  /\ ops'["FinishStreaming"] = 1
  /\ translate_thread_' # "null"
  /\ notify_log' = notify_log

\* C24: the result of the probe decides the branch.  PP_OK is a hit, any
\* other result a miss; a request that took a hit (in either cache) has
\* dropped the downloader and never calls FinishStreaming, and no request
\* calls FinishStreaming twice.
C24_ProbeDecidesBranch ==
  [][ /\ ProbeAnswered => (TookHitBranch \/ TookMissBranch)
      /\ "cache_hit" \in marks' =>
           (ops'["FinishStreaming"] = 0 /\ streaming_downloader_' = "null")
      /\ ops'["FinishStreaming"] <= 1 ]_vars

\* The entry was there but the probe was refused: the request went on as a
\* miss and the whole program was streamed to the worker.
C24_Witness ==
  /\ ~use_new_cache_
  /\ ops["ProbeOpenRead"] = 1
  /\ ops["Rename"] = 0
  /\ HasFile(cache_dir, cache_validators)
  /\ "cache_hit" \notin marks
  /\ ops["FinishStreaming"] = 1
  /\ bytes_put = PexeSize
  /\ translate_thread_ = "running"

\* ---------------------------------------------------------------------------
\* The Writes of the cache copy that have not completed: each carries the
\* number of bytes it was given (n) and its file offset (o).
PendingWrites == Pending("DidCopyNexeToCachePartial")

\* C25: at most one Write of the copy is outstanding; a Write is issued at
\* the offset that equals the bytes acknowledged by the Writes before it
\* (the length the scratch file has reached: no gap, no overlap); and a
\* Write issued after another has a strictly greater offset.
C25_WritesInOffsetOrder ==
  [][ /\ Cardinality(PendingWrites') <= 1
      /\ \A cb \in PendingWrites' :
           /\ cb.n \in 1..kCopyBufSize
           /\ HasFile(cache_dir', ScratchName)
           /\ cb.o = Len(FileContent(cache_dir', ScratchName))
      /\ \A cb1 \in PendingWrites : \A cb2 \in PendingWrites' :
           cb2 # cb1 => cb2.o > cb1.o ]_vars

\* A Write was acknowledged in part, and the next one is outstanding at the
\* offset where it stopped.
C25_Witness ==
  /\ "short_write" \in marks
  /\ \E cb \in PendingWrites : cb.o > 0 /\ cb.o < kCopyBufSize

\* ---------------------------------------------------------------------------
\* The category that goes with the error of a failed cache copy.
CopyErrorCode(pp_error) ==
  IF pp_error = PP_ERROR_NOQUOTA THEN "ERROR_PNACL_CACHE_FINALIZE_COPY_NOQUOTA"
  ELSE IF pp_error = PP_ERROR_NOSPACE
    THEN "ERROR_PNACL_CACHE_FINALIZE_COPY_NOSPACE"
  ELSE "ERROR_PNACL_CACHE_FINALIZE_COPY_OTHER"

\* The Deletes of a scratch file that have not completed; n is the error of
\* the copy.
PendingDeletes == Pending("CorruptCacheFileWasDeleted")

\* C26: a failed copy issues a Delete of the scratch file and reports
\* nothing in that step; the completion of the Delete, whatever its result,
\* fails the request with the category of the copy's error; and a request
\* that issued the Delete issues no Rename.
C26_DeleteThenOriginalError ==
  [][ /\ ops'["Delete"] # ops["Delete"] =>
           /\ ops["Delete"] = 0
           /\ \E cb \in PendingDeletes' : cb.n \in WriteErrors
           /\ ops'["ReportLoadError"] = ops["ReportLoadError"]
           /\ notify_log' = notify_log
      /\ (PendingDeletes # {} /\ PendingDeletes' = {} /\ ~destroyed') =>
           \E cb \in PendingDeletes :
             /\ error_code' = CopyErrorCode(cb.n)
             /\ ops'["ReportLoadError"] = ops["ReportLoadError"] + 1
             /\ notify_log' = Append(notify_log, PP_ERROR_FAILED)
             /\ callbacks' = {}
      /\ ops'["Delete"] > 0 => (ops'["Rename"] = 0 /\ "copy_ok" \notin marks') ]_vars

\* The copy ran out of quota, the Delete of the scratch file failed too, and
\* the request failed with the no-quota category.
C26_Witness ==
  /\ ops["Delete"] = 1
  /\ PendingDeletes = {}
  /\ HasFile(cache_dir, ScratchName)
  /\ error_code = "ERROR_PNACL_CACHE_FINALIZE_COPY_NOQUOTA"
  /\ notify_log = << PP_ERROR_FAILED >>
  /\ ops["Rename"] = 0

\* ---------------------------------------------------------------------------
\* The step completes the Rename with the outcome marked `m`.
RenameCompletedWith(m) == m \notin marks /\ m \in marks'

\* The step completes the OpenRead issued after the Rename.
ReopenCompleted ==
  /\ Pending("NexeReadDidOpen") # {}
  /\ \A cb \in callbacks' : cb.h # "NexeReadDidOpen"
  /\ ~destroyed'

\* C27: a Rename refused with PP_ERROR_FILEEXISTS does not fail the request:
\* the coordinator goes on to open the file under the key for reading and
\* reports nothing; when that open succeeds the caller gets PP_OK and the
\* file under the key, and no failure.
C27_CollisionIsNotFatal ==
  [][ /\ RenameCompletedWith("rename_collided") =>
           /\ notify_log' = notify_log
           /\ ops'["ReportLoadError"] = ops["ReportLoadError"]
           /\ ops'["FinishRename"] = 1
           /\ cached_nexe_file_' = "key"
           /\ ops'["CacheOpenRead"] = 1
           /\ Pending("NexeReadDidOpen")' # {}
      /\ ("rename_collided" \in marks /\ ReopenCompleted) =>
           \/ /\ notify_log' = << PP_OK >>
              /\ ops'["ReportLoadError"] = 0
              /\ translated_fd_' =
                   Fd("cached_nexe_file_",
                      FileContent(cache_dir, cache_validators), 0)
           \/ /\ notify_log' = << PP_ERROR_FAILED >>
              /\ translated_fd_' = NoFd
              /\ error_code' \in { "ERROR_PNACL_CACHE_FETCH_NOACCESS",
                                   "ERROR_PNACL_CACHE_FETCH_OTHER" } ]_vars

\* The Rename met an entry committed earlier; the caller got PP_OK and that
\* entry.
C27_Witness ==
  /\ "rename_collided" \in marks
  /\ "copy_ok" \in marks
  /\ notify_log = << PP_OK >>
  /\ translated_fd_ = Fd("cached_nexe_file_", CommittedEntry, 0)
  /\ HasFile(cache_dir, ScratchName)

\* ---------------------------------------------------------------------------
\* What holds for a Rename that fails with an error other than a name
\* collision: the request fails in that step, with the no-access category
\* for PP_ERROR_NOACCESS and the other category otherwise, and neither
\* FinishRename nor OpenRead is performed.
RenameFailureIsTerminal ==
  /\ RenameCompletedWith("rename_noaccess") =>
       error_code' = "ERROR_PNACL_CACHE_FINALIZE_RENAME_NOACCESS"
  /\ RenameCompletedWith("rename_failed") =>
       error_code' = "ERROR_PNACL_CACHE_FINALIZE_RENAME_OTHER"
  /\ (RenameCompletedWith("rename_noaccess")
        \/ RenameCompletedWith("rename_failed")) =>
       /\ notify_log' = << PP_ERROR_FAILED >>
       /\ callbacks' = {}
  /\ ({ "rename_noaccess", "rename_failed" } \cap marks' # {}) =>
       /\ ops'["FinishRename"] = 0
       /\ ops'["CacheOpenRead"] = 0
       /\ cached_nexe_file_' = "scratch"

\* C28: a Rename that fails with an error other than a name collision is
\* terminal, in the category of its error, without FinishRename or OpenRead,
\* and a Delete of the scratch file is issued before the error is reported.
C28_RenameFailureDeletesScratch ==
  [][ /\ RenameFailureIsTerminal
      /\ ({ "rename_noaccess", "rename_failed" } \cap marks' # {}) =>
           ops'["Delete"] = 1 ]_vars

\* The part of C28 that holds.
C28_RenameFailureIsTerminal == [][ RenameFailureIsTerminal ]_vars

\* The Rename was refused, the request failed, and the scratch file is
\* still in the cache directory with no Delete issued.
C28_ScratchLeftBehind ==
  /\ "rename_noaccess" \in marks
  /\ notify_log = << PP_ERROR_FAILED >>
  /\ error_code = "ERROR_PNACL_CACHE_FINALIZE_RENAME_NOACCESS"
  /\ ops["Delete"] = 0
  /\ HasFile(cache_dir, ScratchName)
  /\ callbacks = {}

\* ---------------------------------------------------------------------------
\* The step is the worker's report, of a translation that failed: the worker
\* reports an error, or a stream error is kept in translate_finish_error_.
FailedTranslationFinishes ==
  /\ translate_thread_ = "running"
  /\ translate_thread_' = "reported"
  /\ (translate_finish_error_ # PP_OK \/ "worker_failed" \in marks')

\* C29: TranslateFinished of a failed translation fails the request, emits
\* no progress event and opens no scratch file; and a request whose
\* translation did not succeed never writes or commits to the cache, nor
\* tells the browser to.
C29_FailedTranslationWritesNothing ==
  [][ /\ FailedTranslationFinishes =>
           /\ ops'["ReportLoadError"] = ops["ReportLoadError"] + 1
           /\ \E i \in 1..Len(notify_log') : notify_log'[i] = PP_ERROR_FAILED
           /\ progress_events' = progress_events
           /\ ops'["ScratchOpenWrite"] = 0
           /\ callbacks' = {}
           /\ "translate_ok" \notin marks'
      /\ "translate_ok" \notin marks' =>
           /\ \A o \in CacheWriteOps : ops'[o] = 0
           /\ ops'["ReportTranslationFinished"] = 0
           /\ "rename_ok" \notin marks'
           /\ \A e \in BytesOf(progress_events') : ~IsComplete(e) ]_vars

\* A cacheable miss whose stream ended with an error although the worker had
\* been given the whole program and reported PP_OK: the request failed and
\* nothing was written.
C29_Witness ==
  /\ ~use_new_cache_
  /\ cached_nexe_file_ = "key"
  /\ translate_finish_error_ # PP_OK
  /\ translate_thread_ = "reported"
  /\ "worker_failed" \notin marks
  /\ bytes_put = PexeSize
  /\ download_total = PexeSize
  /\ notify_log = << PP_ERROR_FAILED >>
  /\ cache_dir = {}

\* ---------------------------------------------------------------------------
\* The step records an error of the bitcode stream.
StreamErrorRecorded ==
  translate_finish_error_ = PP_OK /\ translate_finish_error_' # PP_OK

\* The step is the worker's report.
WorkerReports == translate_thread_ = "running" /\ translate_thread_' = "reported"

\* The error codes of a stream failure.
FetchErrorCodes == { "ERROR_PNACL_PEXE_FETCH_ABORTED",
                     "ERROR_PNACL_PEXE_FETCH_NOACCESS",
                     "ERROR_PNACL_PEXE_FETCH_OTHER" }

\* C30: the step that records a stream error calls AbortSubprocesses and
\* does not notify the caller (unless it is BitcodeStreamDidOpen under
\* use_new_cache_, which calls TranslateFinished itself); the failure is
\* notified when TranslateFinished runs, whatever the worker reports; and
\* with a stream error recorded no other step notifies a stream failure.
C30_StreamFailureIsDeferred ==
  [][ /\ StreamErrorRecorded =>
           /\ aborted'
           /\ ops'["AbortSubprocesses"] = ops["AbortSubprocesses"] + 1
           /\ error_code' \in FetchErrorCodes
           /\ \/ /\ notify_log' = notify_log
                 /\ ops'["ReportLoadError"] = ops["ReportLoadError"]
              \/ /\ use_new_cache_
                 /\ streaming_downloader_ = "opening"
                 /\ notify_log' = << PP_ERROR_FAILED >>
      /\ (translate_finish_error_ # PP_OK /\ WorkerReports) =>
           /\ notify_log' = Append(notify_log, PP_ERROR_FAILED)
           /\ "translate_ok" \notin marks'
      /\ (translate_finish_error_ # PP_OK
            /\ notify_log' = Append(notify_log, PP_ERROR_FAILED)
            /\ error_code' \in FetchErrorCodes) =>
           WorkerReports ]_vars

\* The stream failed, the worker was aborted and then reported PP_OK, and
\* only then was the caller told of the failure.
C30_Witness ==
  /\ translate_finish_error_ = PP_ERROR_NOACCESS
  /\ error_code = "ERROR_PNACL_PEXE_FETCH_NOACCESS"
  /\ aborted
  /\ ops["AbortSubprocesses"] = 1
  /\ translate_thread_ = "reported"
  /\ "worker_failed" \notin marks
  /\ notify_log = << PP_ERROR_FAILED >>
  /\ ops["ReportLoadError"] = 1

\* ---------------------------------------------------------------------------
\* C31: the step that delivers a chunk hands that chunk to the worker by one
\* PutBytes, with the download still going on, so that the worker has been
\* given exactly the bytes delivered so far, in their order; the worker
\* object exists when the stream is opened, at every delivery and while the
\* stream's finish callback is pending; and pexe_size_ is the number of
\* bytes delivered so far.
C31_ChunksForwardedOnArrival ==
  [][ /\ bytes_streamed' # bytes_streamed =>
           /\ translate_thread_ # "null"
           /\ streaming_downloader_' = "streaming"
           /\ ops'["PutBytes"] = ops["PutBytes"] + 1
           /\ bytes_put' - bytes_put = bytes_streamed' - bytes_streamed
      /\ bytes_put' = bytes_streamed'
      /\ pexe_size_' = bytes_streamed'
      /\ ops'["OpenStream"] # ops["OpenStream"] => translate_thread_' # "null"
      /\ Pending("BitcodeStreamDidFinish") # {} => translate_thread_ # "null" ]_vars

\* The program arrived one byte at a time and each byte was handed to the
\* running worker while the stream was still open.
C31_Witness ==
  /\ streaming_downloader_ = "streaming"
  /\ translate_thread_ = "running"
  /\ bytes_streamed = PexeSize
  /\ ops["PutBytes"] = PexeSize
  /\ pexe_size_ = PexeSize

\* ---------------------------------------------------------------------------
\* The category that goes with a failed open of the scratch file.
FileOpenErrorCode(pp_error) ==
  IF pp_error = PP_ERROR_NOACCESS THEN "ERROR_PNACL_CACHE_FILEOPEN_NOACCESS"
  ELSE IF pp_error = PP_ERROR_NOQUOTA THEN "ERROR_PNACL_CACHE_FILEOPEN_NOQUOTA"
  ELSE IF pp_error = PP_ERROR_NOSPACE THEN "ERROR_PNACL_CACHE_FILEOPEN_NOSPACE"
  ELSE IF pp_error = PP_ERROR_NOTAFILE
    THEN "ERROR_PNACL_CACHE_FILEOPEN_NOTAFILE"
  ELSE "ERROR_PNACL_CACHE_FILEOPEN_OTHER"

FileOpenErrorCodes == { FileOpenErrorCode(r) : r \in OpenWriteResults \ { PP_OK } }

CopyOps == { "Read", "Write", "Rename", "Delete" }

\* C32: whenever the open of the scratch file is pending, each of its
\* failures ends the request in its own category without a Read, Write,
\* Rename or Delete; and a request that ended so has issued none.
C32_ScratchOpenFailureIsTerminal ==
  /\ Cardinality(FileOpenErrorCodes) = 5
  /\ \A cb \in Pending("CachedNexeOpenedForWrite") :
     \A r \in OpenWriteResults \ { PP_OK } : \A read_ok \in BOOLEAN :
       LET t == CachedNexeOpenedForWrite(Taken(cb), r, read_ok) IN
         /\ t.error_code = FileOpenErrorCode(r)
         /\ t.notify_log = Append(notify_log, PP_ERROR_FAILED)
         /\ t.callbacks = {}
         /\ \A o \in CopyOps : t.ops[o] = 0
  /\ error_code \in FileOpenErrorCodes =>
       /\ notify_log = << PP_ERROR_FAILED >>
       /\ \A o \in CopyOps : ops[o] = 0
       /\ ~HasFile(cache_dir, ScratchName)

\* The scratch name was taken by a directory: the request failed in the
\* not-a-file category with the worker's nexe unread.
C32_Witness ==
  /\ error_code = "ERROR_PNACL_CACHE_FILEOPEN_NOTAFILE"
  /\ "translate_ok" \in marks
  /\ Len(nexe) = MaxNexeLen
  /\ read_pos = 0
  /\ notify_log = << PP_ERROR_FAILED >>
  /\ ops["ScratchOpenWrite"] = 1

\* ---------------------------------------------------------------------------
\* The step is a compile-progress callback of the running worker.
CompileProgressReported ==
  /\ translate_thread_ = "running"
  /\ translate_thread_' = "running"
  /\ pexe_bytes_compiled_' # pexe_bytes_compiled_

\* C33: the downloader is asked for the total only by a compile-progress
\* callback that finds it unknown, and by every such callback; a callback
\* that leaves it unknown emits an event marked not computable; and a total
\* that is known is neither asked for nor changed by any step.
C33_TotalQueriedWhileUnknown ==
  [][ /\ ops'["GetDownloadProgress"] # ops["GetDownloadProgress"] =>
           /\ CompileProgressReported
           /\ expected_pexe_size_ = -1
           /\ ops'["GetDownloadProgress"] = ops["GetDownloadProgress"] + 1
           /\ expected_pexe_size_' = download_total
      /\ (CompileProgressReported /\ expected_pexe_size_ = -1) =>
           ops'["GetDownloadProgress"] # ops["GetDownloadProgress"]
      /\ (CompileProgressReported /\ expected_pexe_size_' = -1) =>
           progress_events' =
             Append(progress_events,
                    [computable |-> FALSE, loaded |-> pexe_bytes_compiled_',
                     total |-> -1])
      /\ expected_pexe_size_ # -1 =>
           /\ expected_pexe_size_' = expected_pexe_size_
           /\ ops'["GetDownloadProgress"] = ops["GetDownloadProgress"] ]_vars

\* The downloader never knew the total: two callbacks, two queries, two
\* events marked not computable.
C33_Witness ==
  /\ download_total = -1
  /\ expected_pexe_size_ = -1
  /\ ops["GetDownloadProgress"] = 2
  /\ Len(progress_events) = 2
  /\ \A i \in 1..2 : ~progress_events[i].computable /\ progress_events[i].loaded = i

\* ---------------------------------------------------------------------------
\* The state without what telemetry writes and reads.
WithoutTelemetry(s) ==
  [s EXCEPT !.uma_available = FALSE, !.uma_interface = FALSE,
            !.histograms = << >>]
\* The worker has reported and left a nexe of the given length.
WorkerReported(s, len) ==
  [s EXCEPT !.translate_thread_ = "reported", !.nexe = NexeOfLen(len),
            !.read_pos = len]

\* C34: in every reachable state each handler that reports statistics
\* (TranslateFinished, BitcodeStreamDidFinish, CachedFileDidOpen,
\* NexeFileWasRenamed), for every result it can be called with, leaves the
\* same state apart from the telemetry itself whether the UMA interface is
\* offered or not and whether the stat of the nexe succeeds or fails; and
\* without the interface no sample is recorded.
C34_TelemetryHasNoControlImpact ==
  /\ ~uma_available => (histograms = << >> /\ ~uma_interface)
  /\ \A cb \in Pending("TranslateFinished") :
     \A r \in { PP_OK, PP_ERROR_FAILED } : \A len \in 0..MaxNexeLen :
     \A uma \in BOOLEAN : \A stat_ret \in StatResults :
       LET s == WorkerReported(Taken(cb), len) IN
       WithoutTelemetry(
         TranslateFinished([s EXCEPT !.uma_available = uma], r, stat_ret))
         = WithoutTelemetry(TranslateFinished(WithoutTelemetry(s), r, 0))
  /\ \A cb \in Pending("BitcodeStreamDidFinish") :
     \A r \in StreamErrors \cup { PP_OK } : \A uma \in BOOLEAN :
       WithoutTelemetry(
         BitcodeStreamDidFinish([Taken(cb) EXCEPT !.uma_available = uma], r))
         = WithoutTelemetry(
             BitcodeStreamDidFinish(WithoutTelemetry(Taken(cb)), r))
  /\ \A cb \in Pending("CachedFileDidOpen") :
     \A r \in OpenReadResults(TRUE) \cup OpenReadResults(FALSE) :
     \A uma \in BOOLEAN :
       WithoutTelemetry(
         CachedFileDidOpen([Taken(cb) EXCEPT !.uma_available = uma], r))
         = WithoutTelemetry(CachedFileDidOpen(WithoutTelemetry(Taken(cb)), r))
  /\ \A cb \in Pending("NexeFileWasRenamed") :
     \A r \in RenameResults(TRUE) : \A uma \in BOOLEAN :
       WithoutTelemetry(
         NexeFileWasRenamed([Taken(cb) EXCEPT !.uma_available = uma], r))
         = WithoutTelemetry(
             NexeFileWasRenamed(WithoutTelemetry(Taken(cb)), r))

\* With the interface on offer, the request succeeded although the nexe
\* could not be stat'ed: the samples of the translation are there, that of
\* the nexe's size is not.
C34_Witness ==
  /\ uma_available
  /\ notify_log = << PP_OK >>
  /\ "translate_ok" \in marks
  /\ \E i \in 1..Len(histograms) : histograms[i] = "NaCl.Perf.Size.Pexe"
  /\ \A i \in 1..Len(histograms) :
       histograms[i] # "NaCl.Perf.Size.PNaClTranslatedNexe"

\* ---------------------------------------------------------------------------
\* C35: wherever ResourcesDidLoad is about to open the file system of the
\* cache, whatever Open returns at once other than PP_OK_COMPLETIONPENDING
\* fails the request with a report that tells the cause: PP_ERROR_INPROGRESS
\* as ERROR_PNACL_CACHE_OPEN_INPROGRESS, anything else as
\* ERROR_PNACL_CACHE_OPEN_OTHER, and in both cases with the returned value.
C35_OpenErrorIsDistinguished ==
  \A cb \in Pending("ResourcesDidLoad") :
    (cb.n = PP_OK /\ ~off_the_record_ /\ ~use_new_cache_) =>
      \A open_error \in FileSystemOpenReturns \ { PP_OK_COMPLETIONPENDING } :
      \A stream_ok \in BOOLEAN :
        LET t == ResourcesDidLoad(Taken(cb), cb.n, open_error, stream_ok) IN
          /\ t.notify_log = Append(notify_log, PP_ERROR_FAILED)
          /\ t.callbacks = {}
          /\ t.error_code = IF open_error = PP_ERROR_INPROGRESS
                              THEN "ERROR_PNACL_CACHE_OPEN_INPROGRESS"
                              ELSE "ERROR_PNACL_CACHE_OPEN_OTHER"
          /\ t.error_pp = << open_error >>

\* The part of it that holds: the request fails at once and nothing stays
\* pending.
C35_OpenErrorFailsRequest ==
  \A cb \in Pending("ResourcesDidLoad") :
    (cb.n = PP_OK /\ ~off_the_record_ /\ ~use_new_cache_) =>
      \A open_error \in FileSystemOpenReturns \ { PP_OK_COMPLETIONPENDING } :
      \A stream_ok \in BOOLEAN :
        LET t == ResourcesDidLoad(Taken(cb), cb.n, open_error, stream_ok) IN
          /\ t.notify_log = Append(notify_log, PP_ERROR_FAILED)
          /\ t.callbacks = {}

\* Open was refused at once, and the report names no cause and carries the
\* PP_OK that ResourcesDidLoad was called with.
C35_ReportCarriesOk ==
  /\ ops["FileSystemOpen"] = 1
  /\ error_code = "ERROR_PNACL_CACHE_OPEN_OTHER"
  /\ error_pp = << PP_OK >>
  /\ notify_log = << PP_ERROR_FAILED >>
  /\ callbacks = {}

\* ---------------------------------------------------------------------------
\* C36: a compile-progress callback that finds the total unknown finds the
\* downloader in place; no compile-progress callback runs once a cache hit
\* has reset the downloader, because a worker whose downloader is gone was
\* handed nothing it could report on.
C36_DownloaderThereWhenAsked ==
  [][ /\ (CompileProgressReported /\ expected_pexe_size_ = -1) =>
           streaming_downloader_ # "null"
      /\ CompileProgressReported =>
           ("cache_hit" \notin marks /\ ~is_cache_hit_)
      /\ (streaming_downloader_ = "null" /\ translate_thread_ # "null") =>
           (bytes_put = 0 /\ pexe_bytes_compiled_' = 0) ]_vars

\* On the path of the local cache the probe was a hit and the downloader is
\* gone, yet the chain begun by OpenBitcodeStream has gone on and started
\* the worker.
C36_Witness ==
  /\ ~use_new_cache_
  /\ "cache_hit" \in marks
  /\ streaming_downloader_ = "null"
  /\ translate_thread_ = "running"
  /\ ops["RunTranslate"] = 1
  /\ expected_pexe_size_ = -1
  /\ notify_log = << PP_OK >>

\* ---------------------------------------------------------------------------
\* The listeners of the capacity event, and whether the step sent a query.
CapacityListeners == router.watching_event_set_[kOnStorageAvailableCapacityChanged]
StartQueried ==
  router'.queries["StartWatchingStorages"] # router.queries["StartWatchingStorages"]
StopQueried ==
  router'.queries["StopWatchingStorages"] # router.queries["StopWatchingStorages"]

\* C37: a step asks the provider to start watching exactly when it takes
\* the listeners of the capacity event from 0 to 1, and to stop watching
\* exactly when it takes them from 1 to 0; so a further listener, the
\* removal of a listener that is not the last, and a removal when there is
\* no listener ask for neither.
C37_WatchingFollowsFirstAndLast ==
  [][ /\ StartQueried <=> (CapacityListeners = 0 /\ CapacityListeners' = 1)
      /\ StopQueried <=> (CapacityListeners = 1 /\ CapacityListeners' = 0) ]_vars

\* What holds: watching starts exactly with the first listener; it is
\* stopped with the last one, and only by a step that leaves none.
C37_StartOnFirstStopWhenNone ==
  [][ /\ StartQueried <=> (CapacityListeners = 0 /\ CapacityListeners' = 1)
      /\ (CapacityListeners = 1 /\ CapacityListeners' = 0) => StopQueried
      /\ StopQueried => (CapacityListeners' = 0 /\ ~StartQueried) ]_vars

\* The provider was asked to stop watching although no listener was ever
\* there and it was never asked to start.
C37_StopWithoutListener ==
  /\ router.queries["StopWatchingStorages"] = 1
  /\ router.queries["StartWatchingStorages"] = 0
  /\ router.calls = 1

\* ---------------------------------------------------------------------------
\* C38: whatever the callers and the database do, a store that counts as
\* loaded has its database, no call is ever made through a database_ that
\* was reset, and once a save or a change of the model has failed no
\* AddEntry returns true and no SaveEntries is issued.
C38_StoreStaysConsistent ==
  [][ /\ store'.database_loaded_ => store'.database_
      /\ ~store'.null_deref
      /\ store.failed => /\ store'.added = store.added
                         /\ store'.save_entries = store.save_entries ]_vars

\* What holds while the database is there: a store that has not lost its
\* database makes no call through NULL, and a store that does not count as
\* loaded adds and saves nothing.
C38_NothingSavedUnlessLoaded ==
  [][ /\ store.database_ => ~store'.null_deref
      /\ (~store.database_loaded_ /\ store.pending["OnDatabaseLoad"] = 0) =>
           /\ store'.added = store.added
           /\ store'.save_entries = store.save_entries ]_vars

\* A change of the model failed and reset database_ while LoadEntries was
\* outstanding; its callback then made the store count as loaded.
C38_LoadedAfterReset ==
  /\ store.failed
  /\ store.database_loaded_
  /\ ~store.database_
  /\ ~store.null_deref

\* ---------------------------------------------------------------------------
\* C39: a Write that is outstanding finds in its buffer the bytes that were
\* read into it when it was issued, and no Write has completed on a buffer
\* that was released or reused in between.
C39_BufferValidUntilCompletion ==
  /\ "buffer_clobbered" \notin marks
  /\ \A cb \in Pending("DidCopyNexeToCachePartial") : \A intact \in BOOLEAN :
       BufferSeen(State, cb.n, intact) = BufferOf(State, cb.n)

\* A Write completed after the handler that owned its buffer had returned
\* and found other bytes there; the copy went on and the request succeeded.
C39_WriteSawReleasedBuffer ==
  /\ "buffer_clobbered" \in marks
  /\ "rename_ok" \in marks
  /\ notify_log = << PP_OK >>
  /\ HasFile(cache_dir, TheKey)
  /\ FileContent(cache_dir, TheKey) # nexe

====
